---- MODULE Spec2Model ----
(***************************************************************************)
(* Saga engine of sql-insight-engine: the submitter, the broker queues,    *)
(* the Generate / Execute / Format workers, the consumer's action queue    *)
(* and the saga state store.  One saga is followed from submission to its  *)
(* terminal state, with redelivery after a lost broker connection and      *)
(* with failing state-store / publisher calls.                             *)
(***************************************************************************)
EXTENDS Integers, Sequences, FiniteSets, TLC

\* ---------------------------------------------------------------- bounds
MaxConnLoss == 1      \* broker connections lost while deliveries are unacked
MaxFaults == 1        \* state-store / publisher calls that raise
MaxToolCalls == 1     \* tool calls the LLM makes in one step
PrefetchCount == 1    \* prefetch and thread-pool size of a BaseConsumer
MaxCalls == 2         \* tool bindings invoked concurrently against one provider
MaxConnectionsPerServer == 1  \* permits of a provider's semaphore (100 in the code)
MaxClock == 12        \* the registry is followed for this long (units of 3 s)
MaxPublishers == 2    \* threads that call publish on the shared SagaPublisher
MaxRedisTime == 10    \* a saga record is followed for this long (units of 20 min)
MaxWorkers == 3       \* worker threads that ask for the shared tool event loop
MaxWriters == 2       \* workers that write one saga record concurrently
MaxStatusTime == 5    \* the status endpoint is followed for this long (units of 20 min)

\* ------------------------------------------------------------- constants
QUEUE_GENERATE_QUERY == "query_generate_query"
QUEUE_EXECUTE_QUERY == "query_execute_query"
QUEUE_FORMAT_RESULT == "query_format_result"
QUEUE_ERROR == "query_error"

Queues == {QUEUE_GENERATE_QUERY, QUEUE_EXECUTE_QUERY, QUEUE_FORMAT_RESULT, QUEUE_ERROR}
\* the queues that have a consumer (nothing consumes query_error)
Consumers == {QUEUE_GENERATE_QUERY, QUEUE_EXECUTE_QUERY, QUEUE_FORMAT_RESULT}

STEP_API == "api_request_received"
STEP_GENERATE == "generate_query_agentic"
STEP_EXECUTE == "execute_query"
STEP_FORMAT == "format_result_agentic"

\* tools the providers advertise; the LLM may call any tool it is given
AllTools == {"list_tables", "run_query"}
\* SQL texts the LLM may answer with
SqlSet == {"SELECT_A"}

Terminal == {"completed", "error"}

VARIABLES
    store,      \* the record under saga:<saga_id>, or NoRecord
    queue,      \* queue name -> sequence of ready messages on the broker
    unacked,    \* consumer -> set of deliveries not yet acked on its channel
    epoch,      \* consumer -> number of the consumer's current channel
    nextTag,    \* consumer -> next delivery tag of the current channel
    actionQ,    \* consumer -> action queue of ack/nack closures
    threads,    \* set of worker threads, each processing one delivery
    submitted,  \* "no", or how the submitter's request ended: "published", "rejected"
    settled,    \* the terminal-outcome deliveries acked/nacked on their channel
    connLosses, \* connections lost so far
    faults,     \* raising store/publisher calls so far
    calls,      \* tool runtime: binding invocation -> its caller, pool task and coroutine
    permits,    \* tool runtime: free permits of the provider's semaphore
    registry,   \* registry: the redis hash mcp_servers, key -> entry
    monitor,    \* registry: position, snapshot and remaining keys of monitor_servers
    now,        \* registry: time.time()
    started,    \* registry: startup_event has run
    tools_map,  \* discovery: mcp_manager.tools_map, tool name -> url of its client
    fresh,      \* discovery: time.time() - last_refresh_time < 60
    dispatched, \* discovery: the last tool call the agent worker dispatched
    callers,    \* publisher: thread -> its position in SagaPublisher.publish
    lock,       \* publisher: the holder of SagaPublisher._lock, 0 when free
    connection, \* publisher: the state of its broker connection and channel
    redis_key,  \* expiry: the key saga:{id} in redis, with its expiry time
    redis_time, \* expiry: the time in redis
    update_pc,  \* expiry: an update_result call between its GET and its SETEX
    response,   \* classification: the tags and phrases of the agent's final text
    classified, \* classification: what the generate step made of it
    invocation, \* ambient context: the last binding invocation
    shared_loop,\* shared loop: the module global _shared_loop, NoLoop for None
    loops,      \* shared loop: event loops created so far
    loop_threads,\* shared loop: the mcp-event-loop threads started so far
    loop_lock,  \* shared loop: the holder of _loop_lock, 0 when free
    getters,    \* shared loop: worker -> its position in _get_shared_loop
    saga_record,\* concurrent writes: the record under saga:{id}
    writers,    \* concurrent writes: worker -> its call, its position and what its GET read
    status_record,\* status endpoint: the record under saga:{id}
    marked,     \* status endpoint: mark_pending has run for the saga id
    poll,       \* status endpoint: a get_query_status request and what the last one answered
    status_time \* status endpoint: the time in redis

sagaVars == <<store, queue, unacked, epoch, nextTag, actionQ, threads, submitted,
              settled, connLosses, faults>>
mcpVars == <<calls, permits>>
regVars == <<registry, monitor, now, started>>
discVars == <<tools_map, fresh, dispatched>>
pubVars == <<callers, lock, connection>>
expiryVars == <<redis_key, redis_time, update_pc>>
classifyVars == <<response, classified>>
mergeVars == <<invocation>>
loopVars == <<shared_loop, loops, loop_threads, loop_lock, getters>>
raceVars == <<saga_record, writers>>
statusVars == <<status_record, marked, poll, status_time>>
vars == <<sagaVars, mcpVars, regVars, discVars, pubVars, expiryVars,
    classifyVars, mergeVars,
    loopVars,
    raceVars,
    statusVars>>

\* what the actions of one component leave alone
otherThanSaga == <<mcpVars, regVars, discVars, pubVars, expiryVars,
    classifyVars, mergeVars,
    loopVars,
    raceVars,
    statusVars>>
otherThanMcp == <<sagaVars, regVars, discVars, pubVars, expiryVars,
    classifyVars, mergeVars,
    loopVars,
    raceVars,
    statusVars>>
otherThanRegistry == <<sagaVars, mcpVars, discVars, pubVars, expiryVars,
    classifyVars, mergeVars,
    loopVars,
    raceVars,
    statusVars>>
otherThanDiscovery == <<sagaVars, mcpVars, regVars, pubVars, expiryVars,
    classifyVars, mergeVars,
    loopVars,
    raceVars,
    statusVars>>
otherThanPublisher == <<sagaVars, mcpVars, regVars, discVars, expiryVars,
    classifyVars, mergeVars,
    loopVars,
    raceVars,
    statusVars>>
otherThanExpiry == <<sagaVars, mcpVars, regVars, discVars, pubVars,
    classifyVars, mergeVars,
    loopVars,
    raceVars,
    statusVars>>
otherThanClassify ==
    <<sagaVars, mcpVars, regVars, discVars, pubVars, expiryVars, mergeVars,
    loopVars,
    raceVars,
    statusVars>>
otherThanMerge ==
    <<sagaVars, mcpVars, regVars, discVars, pubVars, expiryVars, classifyVars,
    loopVars,
    raceVars,
    statusVars>>
otherThanLoop ==
    <<sagaVars, mcpVars, regVars, discVars, pubVars, expiryVars, classifyVars, mergeVars,
    raceVars,
    statusVars>>
otherThanRace ==
    <<sagaVars, mcpVars, regVars, discVars, pubVars, expiryVars, classifyVars, mergeVars, loopVars,
    statusVars>>
otherThanStatus ==
    <<sagaVars, mcpVars, regVars, discVars, pubVars, expiryVars, classifyVars, mergeVars, loopVars, raceVars>>

\* ------------------------------------------------------------ messages.py
CallStackEntry(step_name, status, tools_used) ==
    [step_name |-> step_name, status |-> status, tools_used |-> tools_used]

\* SagaBaseMessage.add_to_call_stack: tools_used is the explicit metadata
\* when given, else the drained _current_tool_calls
add_to_call_stack(call_stack, step_name, status, tools_used) ==
    Append(call_stack, CallStackEntry(step_name, status, tools_used))

\* the envelope as serialised by to_dict(): _current_tool_calls is not part of it
Envelope(kind, call_stack, all_tool_calls, generated_sql, error_step) ==
    [kind |-> kind, call_stack |-> call_stack, all_tool_calls |-> all_tool_calls,
     generated_sql |-> generated_sql, error_step |-> error_step]

\* message_from_dict: the in-memory message of a worker
MessageFromDict(data) ==
    [call_stack |-> data.call_stack,
     all_tool_calls |-> data.all_tool_calls,
     current_tool_calls |-> << >>,
     generated_sql |-> data.generated_sql]

\* call_data of add_tool_call: one invocation of a tool, the n-th of its step
\* (the code tells invocations apart by their timestamp and arguments)
ToolCall(tool, step_name, n) == [tool |-> tool, step |-> step_name, n |-> n]

\* the invocations a step makes when its agent calls the tools of `tools`
Invocations(step_name, tools) ==
    [i \in 1..Len(tools) |-> ToolCall(tools[i], step_name, i)]

\* SagaBaseMessage.add_tool_call, applied for each call of a sequence of tools
AddToolCalls(message, tools) ==
    [message EXCEPT !.current_tool_calls = @ \o tools,
                    !.all_tool_calls = @ \o tools]

NoMsg == [call_stack |-> << >>, all_tool_calls |-> << >>,
          current_tool_calls |-> << >>, generated_sql |-> ""]

\* ---------------------------------------------------------- state_store.py
NoRecord == [exists |-> FALSE, status |-> "none", keys |-> {},
             call_stack |-> << >>, all_tool_calls |-> << >>,
             generated_sql |-> "", error_step |-> ""]

\* SagaStateStore.mark_pending
mark_pending(initial_keys) ==
    [exists |-> TRUE, status |-> "pending", keys |-> initial_keys,
     call_stack |-> << >>, all_tool_calls |-> << >>,
     generated_sql |-> "", error_step |-> ""]

\* a patch / result dict: the keys it has and the values of the modelled keys
Dict(keys, call_stack, all_tool_calls, generated_sql, error_step) ==
    [keys |-> keys, call_stack |-> call_stack, all_tool_calls |-> all_tool_calls,
     generated_sql |-> generated_sql, error_step |-> error_step]

\* SagaStateStore.update_result: read-modify-write merge, nothing without a record
update_result(rec, patch, status) ==
    IF ~rec.exists THEN rec
    ELSE [exists |-> TRUE,
          status |-> IF status # "" THEN status ELSE rec.status,
          keys |-> rec.keys \cup patch.keys,
          call_stack |-> IF "call_stack" \in patch.keys
                         THEN patch.call_stack ELSE rec.call_stack,
          all_tool_calls |-> IF "all_tool_calls" \in patch.keys
                             THEN patch.all_tool_calls ELSE rec.all_tool_calls,
          generated_sql |-> IF "generated_sql" \in patch.keys
                            THEN patch.generated_sql ELSE rec.generated_sql,
          error_step |-> IF "error_step" \in patch.keys
                         THEN patch.error_step ELSE rec.error_step]

\* SagaStateStore.store_result: overwrite result, set status
store_result(rec, result, status) ==
    [exists |-> TRUE, status |-> status, keys |-> result.keys,
     call_stack |-> IF "call_stack" \in result.keys THEN result.call_stack ELSE << >>,
     all_tool_calls |-> IF "all_tool_calls" \in result.keys
                        THEN result.all_tool_calls ELSE << >>,
     generated_sql |-> IF "generated_sql" \in result.keys
                       THEN result.generated_sql ELSE "",
     error_step |-> IF "error_step" \in result.keys THEN result.error_step ELSE ""]

\* SagaStateStore.get_status
get_status(rec) == IF ~rec.exists THEN "pending" ELSE rec.status

\* ------------------------------------------------------------------ helpers
\* sequences over S of length at most n
RECURSIVE SeqsUpTo(_, _)
SeqsUpTo(S, n) ==
    IF n = 0 THEN {<< >>}
    ELSE LET shorter == SeqsUpTo(S, n - 1)
         IN shorter \cup {Append(s, x) : s \in {t \in shorter : Len(t) = n - 1}, x \in S}

IsPrefix(s, t) == Len(s) <= Len(t) /\ SubSeq(t, 1, Len(s)) = s

\* ------------------------------------------------------ core/mcp/client.py
\* time in units of half a second
INITIALIZE_TIMEOUT == 10   \* wait_for(session.initialize(), timeout=5.0)
CALL_TOOL_TIMEOUT == 60    \* wait_for(session.call_tool(...), timeout=30.0)
BACKOFF == 1               \* asyncio.sleep(0.5) between attempts
RESULT_TIMEOUT == 90       \* future.result(timeout=45.0) on the coroutine
SUBMIT_TIMEOUT == 100      \* future.result(timeout=50.0) on the pool task
RETRIES == 2               \* retries = 2: range(retries + 1) attempts

CallIds == 1..MaxCalls

\* MCPToolResult
MCPToolResult(success, content, error) ==
    [success |-> success, content |-> content, error |-> error]

\* what one attempt of call_tool can end in
AttemptOutcomes ==
    {"ok", "remote_error", "timeout_initialize", "timeout_call_tool", "transport_error"}

\* the time an attempt takes: a timeout takes its whole budget, everything
\* else is taken as immediate
Duration(outcome) ==
    IF outcome = "timeout_initialize" THEN INITIALIZE_TIMEOUT
    ELSE IF outcome = "timeout_call_tool" THEN CALL_TOOL_TIMEOUT
    ELSE 0

\* f"Error: {reason}"
ErrorString(reason) == <<"Error: ", reason>>

\* a binding invocation that has not started
NoCall ==
    [caller |-> "idle", task |-> "none", coro |-> "none", attempt |-> 0,
     elapsed |-> 0, result |-> MCPToolResult(FALSE, "", ""),
     returned |-> << >>, returned_at |-> 0, recorded |-> "none",
     only_call_tool_timeouts |-> TRUE]

\* tool_wrapper after _run_tool_sync returned `value`: add_tool_call(...,
\* "success") and return; if recording raises (sanitize_for_json on the
\* arguments), the except branch records the same arguments again, which
\* raises again, and nothing is recorded
Return(call, value, at, record_raises) ==
    IF call.caller # "blocked" THEN call
    ELSE [call EXCEPT !.caller = IF record_raises THEN "raised" ELSE "returned",
                      !.returned = value,
                      !.returned_at = at,
                      !.recorded = IF record_raises THEN "none" ELSE "success"]

\* tool_wrapper -> _run_tool_sync: the task is submitted to _mcp_executor and
\* the caller blocks on its future
Invoke(i) ==
    /\ calls[i].caller = "idle"
    /\ calls' = [calls EXCEPT ![i].caller = "blocked", ![i].task = "acquiring"]
    /\ UNCHANGED <<permits, otherThanMcp>>

\* _execute_with_shared_loop: `with semaphore`, then run_coroutine_threadsafe
\* dispatches client.call_tool on the shared loop
Acquire(i) ==
    /\ calls[i].task = "acquiring"
    /\ permits > 0
    /\ permits' = permits - 1
    /\ calls' = [calls EXCEPT ![i].task = "waiting", ![i].coro = "running",
                              ![i].attempt = 1, ![i].elapsed = 0]
    /\ UNCHANGED <<otherThanMcp>>

\* an attempt loop that gives up one attempt early
GivesUpEarly(call) == call.attempt >= RETRIES

\* attempt == retries: the attempt after which a failure is returned
LastAttempt(call) == call.attempt = RETRIES + 1

\* GenericMCPClient.call_tool: one iteration of the attempt loop. While the
\* pool task still waits for the coroutine, an attempt that would end after
\* RESULT_TIMEOUT is cut short by ResultTimeout
Attempt(i) ==
    /\ calls[i].coro = "running"
    /\ \E outcome \in AttemptOutcomes :
         LET call == calls[i]
             ended == call.elapsed + Duration(outcome)
             last == LastAttempt(call)
             timeouts == call.only_call_tool_timeouts /\ outcome = "timeout_call_tool"
             finished(result) ==
                 [call EXCEPT !.coro = "finished", !.result = result,
                              !.elapsed = ended, !.only_call_tool_timeouts = timeouts]
             again ==
                 [call EXCEPT !.attempt = @ + 1, !.elapsed = ended + BACKOFF,
                              !.only_call_tool_timeouts = timeouts]
         IN /\ call.task = "waiting" => ended <= RESULT_TIMEOUT
            /\ calls' = [calls EXCEPT ![i] =
                 CASE outcome = "ok" ->
                        finished(MCPToolResult(TRUE, "content", ""))
                   [] outcome = "remote_error" ->
                        finished(MCPToolResult(FALSE, "content", "None"))
                   [] outcome \in {"timeout_initialize", "timeout_call_tool"} ->
                        IF last THEN finished(MCPToolResult(FALSE, "", "MCP call timed out"))
                        ELSE again
                   [] outcome = "transport_error" ->
                        IF last THEN finished(MCPToolResult(FALSE, "", "transport error"))
                        ELSE again]
    /\ UNCHANGED <<permits, otherThanMcp>>

\* future.result(timeout=45.0) returns: the semaphore is released, the value
\* is result.content or f"Error: {result.error}", and the caller returns
Finish(i) ==
    /\ calls[i].task = "waiting"
    /\ calls[i].coro = "finished"
    /\ permits' = permits + 1
    /\ \E record_raises \in BOOLEAN :
         LET call == calls[i]
             value == IF call.result.success THEN <<call.result.content>>
                      ELSE ErrorString(call.result.error)
         IN calls' = [calls EXCEPT ![i] =
                Return([call EXCEPT !.task = "done"], value, call.elapsed, record_raises)]
    /\ UNCHANGED <<otherThanMcp>>

\* future.result(timeout=45.0) raises TimeoutError (its message is empty)
\* while the coroutine is in an attempt that lasts beyond the deadline: the
\* task returns f"Error: {e}", the semaphore is released, the coroutine is
\* not cancelled
ResultTimeout(i) ==
    /\ calls[i].task = "waiting"
    /\ calls[i].coro = "running"
    /\ \E outcome \in AttemptOutcomes :
         calls[i].elapsed + Duration(outcome) > RESULT_TIMEOUT
    /\ permits' = permits + 1
    /\ \E record_raises \in BOOLEAN :
         calls' = [calls EXCEPT ![i] =
             Return([calls[i] EXCEPT !.task = "done"], ErrorString(""),
                    RESULT_TIMEOUT, record_raises)]
    /\ UNCHANGED <<otherThanMcp>>

\* future.result(timeout=50.0) on the pool task raises TimeoutError while
\* the task is still blocked on the semaphore: the caller returns
\* f"Error: {e}", the task goes on
SubmitTimeout(i) ==
    /\ calls[i].caller = "blocked"
    /\ calls[i].task = "acquiring"
    /\ permits = 0
    /\ \E record_raises \in BOOLEAN :
         calls' = [calls EXCEPT ![i] =
             Return(calls[i], ErrorString(""), SUBMIT_TIMEOUT, record_raises)]
    /\ UNCHANGED <<permits, otherThanMcp>>

\* the pool task of a caller that has given up ends when its coroutine does
\* (covered by Finish and ResultTimeout, whose Return leaves the caller alone)
McpNext ==
    \/ \E i \in CallIds : Invoke(i)
    \/ \E i \in CallIds : Acquire(i)
    \/ \E i \in CallIds : Attempt(i)
    \/ \E i \in CallIds : Finish(i)
    \/ \E i \in CallIds : ResultTimeout(i)
    \/ \E i \in CallIds : SubmitTimeout(i)

\* ---------------------------------------------------- mcp-registry/main.py
Names == {"mcp-database", "mcp-postgres"}
Urls == {"http://a/sse", "http://b/sse"}
\* fields of the hash mcp_servers: register_server and startup_event use the
\* url as the field name
Keys == Urls \cup Names

\* MCP_SERVICES: the statically configured services
StaticServices == {[name |-> "mcp-database", url |-> "http://a/sse"]}

\* MCPServerInfo
MCPServerInfo(name, url, last_seen, status, is_static) ==
    [name |-> name, url |-> url, last_seen |-> last_seen, status |-> status,
     is_static |-> is_static]

\* a field the hash does not have
Absent == MCPServerInfo("", "", 0, "absent", FALSE)

\* r.hset(REDIS_KEY, key, server.model_dump_json())
hset(hash, key, server) == [hash EXCEPT ![key] = server]

\* r.hdel(REDIS_KEY, key)
hdel(hash, key) == [hash EXCEPT ![key] = Absent]

\* the fields of the hash
hkeys(hash) == {k \in Keys : hash[k] # Absent}

\* GET /servers: how many of the listed entries have the url
Listed(hash, url) == Cardinality({k \in hkeys(hash) : hash[k].url = url})

\* startup_event: seed the static services, start the monitor
Startup ==
    /\ ~started
    /\ started' = TRUE
    /\ registry' = [k \in Keys |->
          IF \E svc \in StaticServices : svc.url = k
          THEN LET svc == CHOOSE svc \in StaticServices : svc.url = k
               IN MCPServerInfo(svc.name, svc.url, now, "unknown", TRUE)
          ELSE registry[k]]
    /\ monitor' = [monitor EXCEPT !.pc = "due", !.at = now]
    /\ UNCHANGED <<now, otherThanRegistry>>

\* register_server with the name as the field of the hash
register_server_by_name(name, url) ==
    /\ started
    /\ registry' = hset(registry, name, MCPServerInfo(name, url, now, "healthy", FALSE))
    /\ UNCHANGED <<monitor, now, started, otherThanRegistry>>

\* POST /register with the body {name, url} the providers send: is_static
\* takes its default
register_server(name, url) ==
    /\ started
    /\ registry' = hset(registry, url, MCPServerInfo(name, url, now, "healthy", FALSE))
    /\ UNCHANGED <<monitor, now, started, otherThanRegistry>>

\* times in units of 3 s: asyncio.sleep(30) between two cycles of the
\* monitor, client.get(health_url, timeout=3.0) for one probe
HEALTH_INTERVAL == 10
PROBE_TIMEOUT == 1

\* monitor_servers: servers_data = r.hgetall(REDIS_KEY), at once when the
\* task starts and when asyncio.sleep(30) has returned; an empty hash sends
\* the monitor back to sleep
MonitorRead ==
    /\ \/ monitor.pc = "due"
       \/ monitor.pc = "sleeping" /\ now >= monitor.at + HEALTH_INTERVAL
    /\ monitor' = [pc |-> IF hkeys(registry) = {} THEN "sleeping" ELSE "checking",
                   snapshot |-> registry, todo |-> hkeys(registry), at |-> now]
    /\ UNCHANGED <<registry, now, started, otherThanRegistry>>

\* the statuses a probe can yield: 200, another status code, an exception
ProbeResults == {"healthy", "unhealthy", "error"}

\* monitor_servers: the probe of one server of the snapshot has returned
\* (other requests are served while the monitor awaits it) and its result is
\* applied to the hash
MonitorCheck(key, new_status) ==
    /\ monitor.pc = "checking"
    /\ key \in monitor.todo
    /\ LET server == monitor.snapshot[key]
       IN registry' =
            IF new_status = "healthy"
            THEN hset(registry, key,
                      [server EXCEPT !.last_seen = now, !.status = new_status])
            ELSE IF server.is_static
                 THEN IF server.status # new_status
                      THEN hset(registry, key, [server EXCEPT !.status = new_status])
                      ELSE registry
                 ELSE hdel(registry, key)
    /\ monitor' = [monitor EXCEPT !.todo = @ \ {key},
                                  !.pc = IF monitor.todo = {key} THEN "sleeping" ELSE @,
                                  !.at = now]
    /\ UNCHANGED <<now, started, otherThanRegistry>>

\* time passes: a probe returns within its timeout, the monitor wakes when
\* its sleep is over
Tick ==
    /\ now < MaxClock
    /\ monitor.pc # "due"
    /\ monitor.pc = "checking" => now < monitor.at + PROBE_TIMEOUT
    /\ monitor.pc = "sleeping" => now < monitor.at + HEALTH_INTERVAL
    /\ now' = now + 1
    /\ UNCHANGED <<registry, monitor, started, otherThanRegistry>>

RegistryNext ==
    \/ Startup
    \/ \E name \in Names, url \in Urls : register_server(name, url)
    \/ MonitorRead
    \/ \E key \in Keys, new_status \in ProbeResults : MonitorCheck(key, new_status)
    \/ Tick

\* ------------------------------------- core/mcp/client.py: DynamicMCPManager
\* the tools the providers advertise: both serve list_tables, one of them
\* serves describe_table as well
Tools == {"list_tables", "describe_table"}
Serves(url) ==
    IF url = "http://a/sse" THEN {"list_tables", "describe_table"} ELSE {"list_tables"}

\* a tool that tools_map does not have
NoClient == "none"
NoDispatch == [tool |-> "none", url |-> "none", listed |-> FALSE, survivor |-> FALSE]

\* GET /servers: the urls of the entries list_servers returns
ListedUrls == {registry[k].url : k \in hkeys(registry)}

\* refresh_tools, the loop over the servers: a server whose list_tools fails
\* adds nothing, a server that answers adds its tools, and a later server
\* replaces an earlier server's entry for the same tool name; `pick` is the
\* server that came last for each tool
NewToolsMap(servers, failing, pick) ==
    [t \in Tools |->
        IF \E u \in servers \ failing : t \in Serves(u) THEN pick[t] ELSE NoClient]

\* refresh_tools(force): the debounce, GET {registry}/servers, list_tools of
\* each server, then the replacement of the cache unless no tool was found
\* although servers were listed; when the registry does not answer (three
\* attempts; it answers only once it has started) the cache is kept
refresh_tools(force, registry_ok, failing, pick) ==
    /\ registry_ok => started
    /\ failing \subseteq ListedUrls
    /\ \A t \in Tools :
          IF \E u \in ListedUrls \ failing : t \in Serves(u)
          THEN pick[t] \in ListedUrls \ failing /\ t \in Serves(pick[t])
          ELSE pick[t] = "http://a/sse"
    /\ LET debounced == ~force /\ (\E t \in Tools : tools_map[t] # NoClient) /\ fresh
           new_tools_map == NewToolsMap(ListedUrls, failing, pick)
           replace == /\ ~debounced
                      /\ registry_ok
                      /\ \/ \E t \in Tools : new_tools_map[t] # NoClient
                         \/ ListedUrls = {}
       IN /\ tools_map' = IF replace THEN new_tools_map ELSE tools_map
          /\ fresh' = IF replace THEN TRUE ELSE fresh
    /\ UNCHANGED <<dispatched, otherThanDiscovery>>

\* get_discovered_tools and a call of one of its bindings: the call goes to
\* the url of the client that tools_map holds for the tool (the cache is
\* refreshed beforehand only when it is empty)
get_discovered_tools(tool) ==
    /\ tools_map[tool] # NoClient
    /\ dispatched' = [tool |-> tool, url |-> tools_map[tool],
                      listed |-> tools_map[tool] \in ListedUrls,
                      survivor |-> \E u \in ListedUrls : tool \in Serves(u)]
    /\ UNCHANGED <<tools_map, fresh, otherThanDiscovery>>

\* a minute has passed since the last successful refresh
MinutePasses ==
    /\ fresh
    /\ fresh' = FALSE
    /\ UNCHANGED <<tools_map, dispatched, otherThanDiscovery>>

\* the agent worker's cache next to the registry, during one cycle of the
\* monitor
DiscoveryNext ==
    \/ Startup
    \/ \E name \in Names, url \in Urls : register_server(name, url)
    \/ MonitorRead
    \/ \E key \in Keys, new_status \in ProbeResults : MonitorCheck(key, new_status)
    \/ \E force, registry_ok \in BOOLEAN, failing \in SUBSET Urls, pick \in [Tools -> Urls] :
          refresh_tools(force, registry_ok, failing, pick)
    \/ \E tool \in Tools : get_discovered_tools(tool)
    \/ MinutePasses

\* ------------------------------------------------------ saga/publisher.py
\* the threads that call SagaPublisher.publish on the shared publisher
Publishers == 1..MaxPublishers

\* a thread outside publish
NoPublish ==
    [pc |-> "idle", published |-> 0, first_error |-> "none", result |-> "none",
     raised_in |-> "none"]

\* the `with self._lock` block is left, by return or by an exception
PubLeave(p, u) ==
    /\ callers' = [callers EXCEPT ![p] = [u EXCEPT !.pc = "done"]]
    /\ lock' = 0

\* publish is called: `with self._lock`
PubAcquire(p) ==
    /\ callers[p].pc \in {"idle", "done"}
    /\ lock = 0
    /\ lock' = p
    /\ callers' = [callers EXCEPT ![p] = [NoPublish EXCEPT !.pc = "ensure"]]
    /\ UNCHANGED <<connection, otherThanPublisher>>

\* _ensure_connection before the first basic_publish: connect() when there
\* is no connection or it is known to be closed; connect() may raise
PubEnsure(p) ==
    /\ callers[p].pc = "ensure"
    /\ IF connection \in {"none", "closed"}
       THEN \/ /\ connection' = "open"
               /\ callers' = [callers EXCEPT ![p].pc = "publish"]
               /\ UNCHANGED lock
            \/ /\ connection' = "none"
               /\ PubLeave(p, [callers[p] EXCEPT !.result = "raised",
                                                 !.raised_in = "ensure"])
       ELSE /\ callers' = [callers EXCEPT ![p].pc = "publish"]
            /\ UNCHANGED <<connection, lock>>
    /\ UNCHANGED otherThanPublisher

\* the first channel.basic_publish: it returns, or it raises one of the
\* errors the except clause names (the connection was lost: the channel is
\* closed, in the wrong state, the stream is lost), or it raises another
\* error, which leaves publish
PubBasicPublish(p) ==
    /\ callers[p].pc = "publish"
    /\ LET u == [callers[p] EXCEPT !.published = @ + 1]
       IN \/ /\ connection = "open"
             /\ PubLeave(p, [u EXCEPT !.result = "returned"])
          \/ /\ connection = "stale"
             /\ callers' = [callers EXCEPT ![p] =
                   [u EXCEPT !.first_error = "channel", !.pc = "reconnect"]]
             /\ UNCHANGED lock
          \/ /\ connection = "stale"
             /\ PubLeave(p, [u EXCEPT !.first_error = "other", !.result = "raised",
                                      !.raised_in = "publish"])
    /\ UNCHANGED <<connection, otherThanPublisher>>

\* the except clause: connection = channel = None, _ensure_connection
PubReconnect(p) ==
    /\ callers[p].pc = "reconnect"
    /\ \/ /\ connection' = "open"
          /\ callers' = [callers EXCEPT ![p].pc = "retry"]
          /\ UNCHANGED lock
       \/ /\ connection' = "none"
          /\ PubLeave(p, [callers[p] EXCEPT !.result = "raised",
                                            !.raised_in = "reconnect"])
    /\ UNCHANGED otherThanPublisher

\* PubRetry with an except clause of its own that reconnects again
PubRetryAgain(p) ==
    /\ callers[p].pc = "retry"
    /\ LET u == [callers[p] EXCEPT !.published = @ + 1]
       IN \/ /\ connection = "open"
             /\ PubLeave(p, [u EXCEPT !.result = "returned"])
          \/ /\ connection = "stale"
             /\ callers' = [callers EXCEPT ![p] = [u EXCEPT !.pc = "reconnect"]]
             /\ UNCHANGED lock
    /\ UNCHANGED <<connection, otherThanPublisher>>

\* "Retry once": the second channel.basic_publish, outside any try
PubRetry(p) ==
    /\ callers[p].pc = "retry"
    /\ LET u == [callers[p] EXCEPT !.published = @ + 1]
       IN \/ /\ connection = "open"
             /\ PubLeave(p, [u EXCEPT !.result = "returned"])
          \/ /\ connection = "stale"
             /\ PubLeave(p, [u EXCEPT !.result = "raised", !.raised_in = "retry"])
    /\ UNCHANGED <<connection, otherThanPublisher>>

\* the broker or the network drops the connection; is_closed does not show
\* it until the connection is used
BrokerDrops ==
    /\ connection = "open"
    /\ connection' = "stale"
    /\ UNCHANGED <<callers, lock, otherThanPublisher>>

PublisherNext ==
    \/ \E p \in Publishers : PubAcquire(p)
    \/ \E p \in Publishers : PubEnsure(p)
    \/ \E p \in Publishers : PubBasicPublish(p)
    \/ \E p \in Publishers : PubReconnect(p)
    \/ \E p \in Publishers : PubRetry(p)
    \/ BrokerDrops

\* ---------------------------------------- saga/state_store.py: expiry
\* self._ttl_seconds = 3600, in units of 20 minutes
TTL == 3

\* redis SETEX key ttl value at the time redis_time: the key holds the value
\* until ttl has passed
setex(ttl, by) ==
    [set |-> TRUE, written_at |-> redis_time, expires_at |-> redis_time + ttl, by |-> by]

\* redis GET: an expired key is not there
KeyExists == redis_key.set /\ redis_time < redis_key.expires_at

\* mark_pending: setex(saga:{id}, self._ttl_seconds, data)
MarkPendingWrite ==
    /\ redis_key' = setex(TTL, "mark_pending")
    /\ UNCHANGED <<redis_time, update_pc, otherThanExpiry>>

\* store_result: the start time is read, then setex(saga:{id},
\* self._ttl_seconds, data) whether or not a record was there
StoreResultWrite ==
    /\ redis_key' = setex(TTL, "store_result")
    /\ UNCHANGED <<redis_time, update_pc, otherThanExpiry>>

\* update_result, first command: get(saga:{id}); without a record nothing
\* is written
UpdateResultGet ==
    /\ update_pc = "idle"
    /\ KeyExists
    /\ update_pc' = "got"
    /\ UNCHANGED <<redis_key, redis_time, otherThanExpiry>>

\* update_result's write as SET with KEEPTTL: the expiry is left as it was
UpdateResultKeepTtl ==
    /\ update_pc = "got"
    /\ update_pc' = "idle"
    /\ redis_key' = IF KeyExists
                    THEN [redis_key EXCEPT !.written_at = redis_time, !.by = "update_result"]
                    ELSE setex(TTL, "update_result")
    /\ UNCHANGED <<redis_time, otherThanExpiry>>

\* update_result, second command: setex(saga:{id}, self._ttl_seconds, data)
UpdateResultSetex ==
    /\ update_pc = "got"
    /\ update_pc' = "idle"
    /\ redis_key' = setex(TTL, "update_result")
    /\ UNCHANGED <<redis_time, otherThanExpiry>>

\* 20 minutes pass
RedisTick ==
    /\ redis_time < MaxRedisTime
    /\ redis_time' = redis_time + 1
    /\ UNCHANGED <<redis_key, update_pc, otherThanExpiry>>

ExpiryNext ==
    \/ MarkPendingWrite
    \/ StoreResultWrite
    \/ UpdateResultGet
    \/ UpdateResultSetex
    \/ RedisTick

\* ------------------------------------------------------------ classification
\* run_agentic_sql_generation: what the agent's final text gives the tags
\* DECISION and SQL (an absent tag reads as ""), and which of the
\* out-of-scope phrases the lowered text contains
Decisions ==
    {"", "RELEVANT", "relevant", "OUT_OF_SCOPE", "out_of_scope",
     "OUT_OF_SCOPE (no such table)", "IRRELEVANT"}

SqlTexts == {"", "NONE", "none", "SELECT 1"}

out_of_scope_keywords ==
    {"out of your business scope", "out of you bussiness scope",
     "not related to the", "cannot answer", "missing data",
     "not related to any available tables", "out of scope",
     "does not exist", "unable to find the table"}

\* str.upper() on the texts above
upper(s) ==
    CASE s = "relevant" -> "RELEVANT"
      [] s = "out_of_scope" -> "OUT_OF_SCOPE"
      [] s = "OUT_OF_SCOPE (no such table)" -> "OUT_OF_SCOPE (NO SUCH TABLE)"
      [] s = "none" -> "NONE"
      [] OTHER -> s

\* needle in text, for the two needles of the decision test
Contains(needle, text) ==
    CASE needle = "OUT_OF_SCOPE" ->
             text \in {"OUT_OF_SCOPE", "OUT_OF_SCOPE (NO SUCH TABLE)"}
      [] needle = "IRRELEVANT" -> text = "IRRELEVANT"
      [] OTHER -> FALSE

\* not sql or sql.upper() == "NONE"
NoSqlProduced(sql) == sql = "" \/ upper(sql) = "NONE"

\* the three tests of run_agentic_sql_generation, in the code's order
is_out_of_scope(decision_tag, sql, keywords) ==
    LET decision == upper(decision_tag)
        by_decision ==
            Contains("OUT_OF_SCOPE", decision) \/ Contains("IRRELEVANT", decision)
        by_sql == by_decision \/ NoSqlProduced(sql)
    IN  IF ~by_sql /\ keywords \cap out_of_scope_keywords # {}
        THEN NoSqlProduced(sql) \/ "cannot answer" \in keywords
        ELSE by_sql

NoResponse == [decision |-> "none", sql |-> "none", keywords |-> {}]

\* the generate step of the saga classifies the agent's final text
run_agentic_sql_generation(decision_tag, sql, keywords) ==
    /\ response = NoResponse
    /\ response' = [decision |-> decision_tag, sql |-> sql, keywords |-> keywords]
    /\ classified' = IF is_out_of_scope(decision_tag, sql, keywords)
                     THEN "OutOfScope" ELSE "Generated"
    /\ UNCHANGED otherThanClassify

ClassifyNext ==
    \E decision_tag \in Decisions, sql \in SqlTexts,
       keywords \in SUBSET out_of_scope_keywords :
        run_agentic_sql_generation(decision_tag, sql, keywords)

\* ------------------------------------------------------------ ambient context
\* the keyword arguments of one binding invocation; NotGiven is a key that
\* is not in kwargs
NotGiven == "<not given>"
None == "<None>"

\* the context of the generate step and of the format step; NoContext is
\* a binding made without one
NoContext == [k \in {} |-> ""]
Contexts ==
    {NoContext,
     [k \in {"account_id"} |-> "ctx account"],
     [k \in {"db_url", "account_id"} |-> IF k = "db_url" THEN "ctx url" ELSE "ctx account"]}

ArgKeys == {"db_url", "account_id", "table_name", "limit"}

\* what the model may pass under each key
CallerValues(k) ==
    CASE k = "table_name" -> {NotGiven, "orders"}
      [] k = "limit" -> {NotGiven, "str 5", "int 5", "str many"}
      [] OTHER -> {NotGiven, None, "", "caller value"}

\* the binding's annotations: context keys are left out of its signature
Annotation(context, k) ==
    CASE k \in DOMAIN context -> "none"
      [] k = "limit" -> "int"
      [] OTHER -> "str"

\* the type casting at the head of tool_wrapper
cast(context, kw) ==
    [k \in ArgKeys |->
        IF Annotation(context, k) = "int" /\ kw[k] = "str 5" THEN "int 5" ELSE kw[k]]

\* not kwargs[k]
Falsy(v) == v \in {None, ""}

\* the merge that always takes the context value
inject_context_always(context, kw) ==
    [k \in ArgKeys |-> IF k \in DOMAIN context THEN context[k] ELSE kw[k]]

\* "Inject context if provided"
inject_context(context, kw) ==
    [k \in ArgKeys |->
        IF k \in DOMAIN context /\ (kw[k] = NotGiven \/ Falsy(kw[k]))
        THEN context[k] ELSE kw[k]]

NoInvocation ==
    [context |-> NoContext, kwargs |-> [k \in ArgKeys |-> NotGiven],
     casted |-> [k \in ArgKeys |-> NotGiven],
     arguments |-> [k \in ArgKeys |-> NotGiven], sent |-> FALSE]

\* tool_wrapper: cast, merge, and the arguments handed to call_tool
tool_wrapper(context, kw) ==
    /\ invocation' = [context |-> context, kwargs |-> kw,
                      casted |-> cast(context, kw),
                      arguments |-> inject_context(context, cast(context, kw)),
                      sent |-> TRUE]
    /\ UNCHANGED otherThanMerge

MergeNext ==
    \E context \in Contexts, kw \in [ArgKeys -> UNION {CallerValues(k) : k \in ArgKeys}] :
        /\ \A k \in ArgKeys : kw[k] \in CallerValues(k)
        /\ tool_wrapper(context, kw)

\* ------------------------------------------------------------ shared loop
\* the worker threads that call _get_shared_loop, once each
Workers == 1..MaxWorkers

NoLoop == 0

\* "with _loop_lock"
GetLoopLock(w) ==
    /\ getters[w].pc = "idle"
    /\ loop_lock = 0
    /\ loop_lock' = w
    /\ getters' = [getters EXCEPT ![w].pc = "locked"]
    /\ UNCHANGED <<shared_loop, loops, loop_threads, otherThanLoop>>

\* is_running() of the loop in _shared_loop: some thread is in its run_forever
is_running(loop) == \E i \in 1..Len(loop_threads) : loop_threads[i] = [state |-> "running", loop |-> loop]

\* the body under the lock: a new loop and a new thread unless the shared
\* loop is running; time.sleep(0.1) passes and the loop is returned. The
\* sleep puts no bound on when the new thread gets to run_forever
CreateOrReuse(w) ==
    /\ getters[w].pc = "locked"
    /\ IF shared_loop = NoLoop \/ ~is_running(shared_loop)
       THEN /\ loops' = loops + 1
            /\ shared_loop' = loops + 1
            /\ loop_threads' = Append(loop_threads, [state |-> "started", loop |-> NoLoop])
       ELSE UNCHANGED <<loops, shared_loop, loop_threads>>
    /\ getters' = [getters EXCEPT ![w].pc = "done", ![w].loop = shared_loop']
    /\ loop_lock' = 0
    /\ UNCHANGED otherThanLoop

\* run_loop in the new thread: _shared_loop is the module global, read when
\* the thread runs; run_forever raises RuntimeError when that loop is
\* already running
run_loop(i) ==
    /\ loop_threads[i].state = "started"
    /\ loop_threads' = [loop_threads EXCEPT ![i] =
           IF is_running(shared_loop) THEN [state |-> "raised", loop |-> shared_loop]
           ELSE [state |-> "running", loop |-> shared_loop]]
    /\ UNCHANGED <<shared_loop, loops, loop_lock, getters, otherThanLoop>>

LoopNext ==
    \/ \E w \in Workers : GetLoopLock(w)
    \/ \E w \in Workers : CreateOrReuse(w)
    \/ \E i \in 1..Len(loop_threads) : run_loop(i)

\* ------------------------------------------------------------ concurrent writes
\* the calls two workers make on one saga id: the progress updates of the
\* Generate and Execute workers, the Format worker's terminal update, and
\* store_saga_error's store_result
WriteOps ==
    {[op |-> "update_result", patch |-> {"generated_sql"}, status |-> "none"],
     [op |-> "update_result", patch |-> {"raw_results"}, status |-> "none"],
     [op |-> "update_result", patch |-> {"formatted_response"}, status |-> "completed"],
     [op |-> "store_result", patch |-> {"error"}, status |-> "error"]}

Writers == 1..MaxWriters

NoSagaRecord == [exists |-> FALSE, result |-> {}, status |-> "none"]

NoWrite ==
    [pc |-> "idle", call |-> [op |-> "none", patch |-> {}, status |-> "none"],
     read |-> NoSagaRecord]

\* mark_pending is one SETEX
RaceMarkPending ==
    /\ ~saga_record.exists
    /\ \A w \in Writers : writers[w].pc = "idle"
    /\ saga_record' = [exists |-> TRUE, result |-> {"question"}, status |-> "pending"]
    /\ UNCHANGED <<writers, otherThanRace>>

\* update_result / store_result, first half: self._redis.get(key)
RaceGet(w, call) ==
    /\ writers[w].pc = "idle"
    /\ writers' = [writers EXCEPT ![w] = [pc |-> "read", call |-> call, read |-> saga_record]]
    /\ UNCHANGED <<saga_record, otherThanRace>>

\* the record a call writes back, computed from what it read
Written(call, read) ==
    IF call.op = "store_result"
    THEN [exists |-> TRUE, result |-> call.patch, status |-> call.status]
    ELSE [exists |-> TRUE, result |-> read.result \cup call.patch,
          status |-> IF call.status # "none" THEN call.status ELSE read.status]

\* an update_result that writes whether or not its GET found a record
UpdateResultUpserts(read) == TRUE

\* update_result, "if data_str:": the rest of the call runs only when the
\* GET found a record
UpdateResultWrites(read) == read.exists

\* second half: self._redis.setex(key, ttl, json.dumps(data)), which
\* update_result reaches only when its GET found a record; the call returns
RaceSetex(w) ==
    /\ writers[w].pc = "read"
    /\ saga_record' =
          IF writers[w].call.op = "update_result" /\ ~UpdateResultWrites(writers[w].read)
          THEN saga_record
          ELSE Written(writers[w].call, writers[w].read)
    /\ writers' = [writers EXCEPT ![w].pc = "done"]
    /\ UNCHANGED otherThanRace

RaceNext ==
    \/ RaceMarkPending
    \/ \E w \in Writers, call \in WriteOps : RaceGet(w, call)
    \/ \E w \in Writers : RaceSetex(w)

\* ------------------------------------------------------------ status endpoint
NoStatusRecord == [set |-> FALSE, status |-> "none", result |-> "none", expires_at |-> 0]

NoPoll == [pc |-> "idle", status |-> "none", reported |-> "none", terminal_reported |-> FALSE]

\* self._redis.get(f"saga:{saga_id}"): the record, not there once its time
\* to live is over
StatusGet ==
    [exists |-> status_record.set /\ status_time < status_record.expires_at,
     status |-> status_record.status, result |-> status_record.result]

\* SagaStateStore.get_result: None when the key is not there
get_result(rec) == IF ~rec.exists THEN "none" ELSE rec.result

\* query_user_database_async: mark_pending for the new saga id
StatusMarkPending ==
    /\ ~marked
    /\ marked' = TRUE
    /\ status_record' = [set |-> TRUE, status |-> "pending", result |-> "data",
                         expires_at |-> status_time + TTL]
    /\ UNCHANGED <<status_time, poll, otherThanStatus>>

\* the saga's terminal write: update_result(..., status="completed") of the
\* Format worker or store_result(..., status="error") of store_saga_error
StatusTerminalWrite(status) ==
    /\ StatusGet.exists
    /\ StatusGet.status = "pending"
    /\ status_record' = [status_record EXCEPT !.status = status,
                                               !.expires_at = status_time + TTL]
    /\ UNCHANGED <<status_time, marked, poll, otherThanStatus>>

\* 20 minutes pass
StatusTick ==
    /\ status_time < MaxStatusTime
    /\ status_time' = status_time + 1
    /\ UNCHANGED <<status_record, marked, poll, otherThanStatus>>

\* get_query_status, first read: status = saga_store.get_status(saga_id)
PollGetStatus ==
    /\ poll.pc = "idle"
    /\ poll' = [poll EXCEPT !.pc = "got_status", !.status = get_status(StatusGet)]
    /\ UNCHANGED <<status_time, marked, status_record, otherThanStatus>>

\* the status get_query_status answers with, given the two reads
Reported(status, result) ==
    IF status = "completed" /\ result # "none" THEN "completed"
    ELSE IF status = "error" /\ result # "none" THEN "error"
    ELSE "pending"

\* get_query_status, second read and the response
PollRespond ==
    /\ poll.pc = "got_status"
    /\ LET answer == Reported(poll.status, get_result(StatusGet))
       IN poll' = [pc |-> "idle", status |-> "none", reported |-> answer,
                   terminal_reported |-> poll.terminal_reported \/ answer # "pending"]
    /\ UNCHANGED <<status_time, marked, status_record, otherThanStatus>>

StatusNext ==
    \/ StatusMarkPending
    \/ \E status \in {"completed", "error"} : StatusTerminalWrite(status)
    \/ StatusTick
    \/ PollGetStatus
    \/ PollRespond

\* a worker thread processing the delivery (tag, epoch) of consumer c
Thread(c, d, ep) ==
    [c |-> c, tag |-> d.tag, epoch |-> ep, redelivered |-> d.redelivered,
     pc |-> "queued", message |-> MessageFromDict(d.body), next_message |-> NoMsg,
     outcome |-> "none", published |-> FALSE, updated |-> FALSE,
     wrote_terminal |-> FALSE, wrote_error |-> FALSE, raised |-> FALSE,
     formatted |-> "none"]

\* replace thread t by its successor state u
Step(t, u) == threads' = (threads \ {t}) \cup {u}

Init ==
    /\ store = NoRecord
    /\ queue = [q \in Queues |-> << >>]
    /\ unacked = [c \in Consumers |-> {}]
    /\ epoch = [c \in Consumers |-> 1]
    /\ nextTag = [c \in Consumers |-> 1]
    /\ actionQ = [c \in Consumers |-> << >>]
    /\ threads = {}
    /\ submitted = "no"
    /\ settled = {}
    /\ connLosses = 0
    /\ faults = 0
    /\ calls = [i \in CallIds |-> NoCall]
    /\ permits = MaxConnectionsPerServer
    /\ registry = [k \in Keys |-> Absent]
    /\ monitor = [pc |-> "off", snapshot |-> [k \in Keys |-> Absent], todo |-> {},
                  at |-> 0]
    /\ now = 0
    /\ started = FALSE
    /\ tools_map = [t \in Tools |-> NoClient]
    /\ fresh = FALSE
    /\ dispatched = NoDispatch
    /\ callers = [p \in Publishers |-> NoPublish]
    /\ lock = 0
    /\ connection = "none"
    /\ redis_key = [set |-> FALSE, written_at |-> 0, expires_at |-> 0, by |-> "none"]
    /\ redis_time = 0
    /\ update_pc = "idle"
    /\ response = NoResponse
    /\ classified = "none"
    /\ invocation = NoInvocation
    /\ shared_loop = NoLoop
    /\ loops = 0
    /\ loop_threads = << >>
    /\ loop_lock = 0
    /\ getters = [w \in Workers |-> [pc |-> "idle", loop |-> NoLoop]]
    /\ saga_record = NoSagaRecord
    /\ writers = [w \in Writers |-> NoWrite]
    /\ status_record = NoStatusRecord
    /\ marked = FALSE
    /\ poll = NoPoll
    /\ status_time = 0

\* ------------------------------------------------------------ publisher
\* SagaPublisher.publish: the message is appended to the durable queue
Publish(q, message) ==
    queue' = [queue EXCEPT ![q] = Append(@, [body |-> message, redelivered |-> FALSE])]

\* a store or publisher call raises (connection error, timeout)
Raises ==
    /\ faults < MaxFaults
    /\ faults' = faults + 1

\* ------------------------------------------------------------ submitter
\* query_user_database_async: initial call stack entry, mark_pending, publish
Submit ==
    /\ submitted = "no"
    /\ store' = mark_pending({"question"})
    /\ \/ /\ Publish(QUEUE_GENERATE_QUERY,
                     Envelope("Initiated",
                              add_to_call_stack(<< >>, STEP_API, "success", << >>),
                              << >>, "", ""))
          /\ submitted' = "published"
          /\ UNCHANGED faults
       \/ \* publish raises: HTTP 500, the record stays pending
          /\ Raises
          /\ submitted' = "rejected"
          /\ UNCHANGED queue
    /\ UNCHANGED <<unacked, epoch, nextTag, actionQ, threads, settled, connLosses>>
    /\ UNCHANGED otherThanSaga

\* ------------------------------------------------------------- consumer
\* basic_qos(prefetch_count): BaseConsumer uses its prefetch_count, which is
\* also the size of its thread pool; the executor's consumer sets 1 and runs
\* the callback on the connection's own thread
Prefetch(c) == IF c = QUEUE_EXECUTE_QUERY THEN 1 ELSE PrefetchCount

\* the broker delivers the head of the queue on the current channel, up to
\* the prefetch bound; _callback submits the delivery to the thread pool
Deliver(c) ==
    /\ queue[c] # << >>
    /\ Cardinality(unacked[c]) < Prefetch(c)
    /\ LET d == [tag |-> nextTag[c], body |-> Head(queue[c]).body,
                 redelivered |-> Head(queue[c]).redelivered]
       IN /\ unacked' = [unacked EXCEPT ![c] = @ \cup {d}]
          /\ threads' = threads \cup {Thread(c, d, epoch[c])}
    /\ queue' = [queue EXCEPT ![c] = Tail(@)]
    /\ nextTag' = [nextTag EXCEPT ![c] = @ + 1]
    /\ UNCHANGED <<store, epoch, actionQ, submitted, settled, connLosses, faults>>
    /\ UNCHANGED otherThanSaga

\* the pool starts the submitted deliveries in order of arrival, as its
\* workers become free
Starts(t) ==
    /\ t.pc = "queued"
    /\ Cardinality({u \in threads : u.c = t.c /\ u.pc # "queued"}) < Prefetch(t.c)
    /\ \A u \in threads :
         (u.c = t.c /\ u.pc = "queued") =>
            (t.epoch < u.epoch \/ (t.epoch = u.epoch /\ t.tag <= u.tag))

\* the closure QueueingChannel.basic_ack / basic_nack puts on the action
\* queue: bound to the channel the delivery arrived on
Closure(t, kind) ==
    [kind |-> kind, tag |-> t.tag, epoch |-> t.epoch, outcome |-> t.outcome,
     published |-> t.published, wrote_terminal |-> t.wrote_terminal,
     raised |-> t.raised, formatted |-> t.formatted]

\* basic_ack / basic_nack applied to the consumer's current channel, whatever
\* channel the delivery arrived on
SettledOnCurrent(c, tag, ep) == {d \in unacked[c] : d.tag # tag}

\* the effect of basic_ack / basic_nack(requeue=False) on the channel `ep`:
\* on the current channel the delivery is settled, on a closed one it raises
Settled(c, tag, ep) ==
    IF ep = epoch[c] THEN {d \in unacked[c] : d.tag # tag} ELSE unacked[c]

\* the record of an executed ack/nack of a delivery with a terminal outcome
SettledRecord(c, ep, a) ==
    IF ep = epoch[c] /\ a.outcome \in {"oos", "failed", "completed"}
    THEN {[c |-> c, kind |-> a.kind, outcome |-> a.outcome,
           wrote_terminal |-> a.wrote_terminal, raised |-> a.raised]}
    ELSE {}

\* QueueingChannel.basic_ack / basic_nack calling the channel's method at
\* once, on the worker thread
EnqueueDirect(t, u, kind) ==
    /\ unacked' = [unacked EXCEPT ![t.c] = Settled(t.c, t.tag, t.epoch)]
    /\ settled' = settled \cup SettledRecord(t.c, t.epoch, Closure(u, kind))
    /\ actionQ' = actionQ
    /\ threads' = threads \ {t}

\* QueueingChannel.basic_ack / basic_nack: thread t, in its final state u,
\* puts the closure on the action queue and ends; the channel is not touched
Enqueue(t, u, kind) ==
    /\ actionQ' = [actionQ EXCEPT ![t.c] = Append(@, Closure(u, kind))]
    /\ threads' = threads \ {t}
    /\ UNCHANGED <<unacked, settled>>

\* a thread_target without its except clause: the exception ends the worker
\* thread and nothing is enqueued
ThreadTargetNoExcept(t, u) ==
    /\ threads' = threads \ {t}
    /\ UNCHANGED <<actionQ, unacked, settled>>

\* _callback.thread_target, except Exception: an exception that leaves
\* process_message enqueues basic_nack(requeue=False)
ThreadTargetExcept(t, u) == Enqueue(t, u, "nack")

\* start_consuming, step 3: execute the next queued closure on the loop thread
Drain(c) ==
    /\ actionQ[c] # << >>
    /\ LET a == Head(actionQ[c])
       IN /\ unacked' = [unacked EXCEPT ![c] = Settled(c, a.tag, a.epoch)]
          /\ settled' = settled \cup SettledRecord(c, a.epoch, a)
    /\ actionQ' = [actionQ EXCEPT ![c] = Tail(@)]
    /\ UNCHANGED <<store, queue, epoch, nextTag, threads, submitted, connLosses, faults>>
    /\ UNCHANGED otherThanSaga

\* the unacked deliveries in delivery-tag order, flagged redelivered
RECURSIVE Requeued(_)
Requeued(ds) ==
    IF ds = {} THEN << >>
    ELSE LET d == CHOOSE x \in ds : \A y \in ds : x.tag <= y.tag
         IN <<[body |-> d.body, redelivered |-> TRUE]>> \o Requeued(ds \ {d})

\* the broker connection is lost: the broker requeues what is unacked, the
\* loop clears the action queue and reconnects on a new channel
ConnectionLost(c) ==
    /\ connLosses < MaxConnLoss
    /\ unacked[c] # {}
    /\ connLosses' = connLosses + 1
    /\ queue' = [queue EXCEPT ![c] = Requeued(unacked[c]) \o @]
    /\ unacked' = [unacked EXCEPT ![c] = {}]
    /\ actionQ' = [actionQ EXCEPT ![c] = << >>]
    /\ epoch' = [epoch EXCEPT ![c] = @ + 1]
    /\ nextTag' = [nextTag EXCEPT ![c] = 1]
    /\ UNCHANGED <<store, threads, submitted, settled, faults>>
    /\ UNCHANGED otherThanSaga

\* ---------------------------------------------------------- saga/utils.py
\* store_saga_error, step 1: the error entry drains the pending tool calls
ErrorMessageOf(message, error_step) ==
    [message EXCEPT
        !.call_stack = add_to_call_stack(@, error_step, "error",
                                         message.current_tool_calls),
        !.current_tool_calls = << >>]

\* store_saga_error, step 2: error_dict
ErrorDict(message, error_step) ==
    Dict({"error_step", "formatted_response", "call_stack", "all_tool_calls"},
         message.call_stack, message.all_tool_calls, "", error_step)

ErrorStepOf(c) == IF c = QUEUE_GENERATE_QUERY THEN STEP_GENERATE ELSE STEP_FORMAT

\* store_saga_error up to store_result, called on the OutOfScope path
\* ("oos_store") and from the except handler ("handler")
StoreSagaError(t) ==
    /\ t.c \in {QUEUE_GENERATE_QUERY, QUEUE_FORMAT_RESULT}
    /\ t.pc \in {"oos_store", "handler"}
    /\ LET m == ErrorMessageOf(t.message, ErrorStepOf(t.c))
           u == [t EXCEPT !.message = m,
                          !.outcome = IF t.pc = "handler" THEN "failed" ELSE @]
       IN \/ /\ store' = store_result(store, ErrorDict(m, ErrorStepOf(t.c)), "error")
             /\ Step(t, [u EXCEPT !.wrote_terminal = TRUE, !.wrote_error = TRUE,
                                  !.pc = IF t.pc = "handler" THEN "handler_publish"
                                         ELSE "oos_publish"])
             /\ UNCHANGED <<faults, actionQ, unacked, settled>>
          \/ \* store_result raises on the OutOfScope path: the except handler runs
             /\ t.pc = "oos_store"
             /\ Raises
             /\ Step(t, [u EXCEPT !.pc = "handler", !.raised = TRUE])
             /\ UNCHANGED <<store, actionQ, unacked, settled>>
          \/ \* store_result raises in the except handler: the exception leaves
             \* process_message and _callback.thread_target enqueues the nack
             /\ t.pc = "handler"
             /\ Raises
             /\ ThreadTargetExcept(t, [u EXCEPT !.raised = TRUE])
             /\ UNCHANGED store
    /\ UNCHANGED <<queue, epoch, nextTag, submitted, connLosses>>

\* PublishError with basic_nack(requeue=False) on the OutOfScope path too
PublishErrorNacking(t) ==
    /\ t.c \in {QUEUE_GENERATE_QUERY, QUEUE_FORMAT_RESULT}
    /\ t.pc \in {"oos_publish", "handler_publish"}
    /\ \/ /\ Publish(QUEUE_ERROR, Envelope("Error", << >>, << >>, "", ErrorStepOf(t.c)))
          /\ UNCHANGED faults
       \/ /\ Raises
          /\ UNCHANGED queue
    /\ Enqueue(t, t, "nack")
    /\ UNCHANGED <<store, epoch, nextTag, submitted, connLosses>>

\* store_saga_error, step 3: publish_error, a failure is caught and printed;
\* then ch.basic_ack (OutOfScope) or ch.basic_nack(requeue=False) (handler)
PublishError(t) ==
    /\ t.c \in {QUEUE_GENERATE_QUERY, QUEUE_FORMAT_RESULT}
    /\ t.pc \in {"oos_publish", "handler_publish"}
    /\ \/ /\ Publish(QUEUE_ERROR, Envelope("Error", << >>, << >>, "", ErrorStepOf(t.c)))
          /\ UNCHANGED faults
       \/ /\ Raises
          /\ UNCHANGED queue
    /\ Enqueue(t, t, IF t.pc = "oos_publish" THEN "ack" ELSE "nack")
    /\ UNCHANGED <<store, epoch, nextTag, submitted, connLosses>>

\* ------------------------------------------------ query_generator_consumer
\* the generator's tool set without the filter on run_query
GeneratorToolsUnfiltered == AllTools

\* the generator's tool set: every discovered tool but run_query
GeneratorTools == {tool \in AllTools : tool # "run_query"}

\* process_query_generation up to the branch on is_out_of_scope. The agent
\* run records its tool calls in the message and ends in an exception, an
\* OutOfScope decision or a generated SQL
GenRun(t) ==
    /\ t.c = QUEUE_GENERATE_QUERY
    /\ Starts(t)
    /\ \E tools \in SeqsUpTo(GeneratorTools, MaxToolCalls) :
         LET m == AddToolCalls(t.message, Invocations(STEP_GENERATE, tools))
         IN \/ Step(t, [t EXCEPT !.message = m, !.pc = "handler"])
            \/ Step(t, [t EXCEPT !.message = m, !.pc = "oos_store", !.outcome = "oos"])
            \/ \E sql \in SqlSet :
                 Step(t, [t EXCEPT
                     !.message = [m EXCEPT !.current_tool_calls = << >>],
                     !.next_message =
                         [call_stack |-> add_to_call_stack(m.call_stack, STEP_GENERATE,
                                             "success", m.current_tool_calls),
                          all_tool_calls |-> m.all_tool_calls,
                          current_tool_calls |-> m.current_tool_calls,
                          generated_sql |-> sql],
                     !.outcome = "next",
                     !.pc = "publish"])
    /\ UNCHANGED <<store, queue, unacked, epoch, nextTag, actionQ, submitted, settled,
                   connLosses, faults>>

\* publisher.publish_query_execution(next_message)
GenPublish(t) ==
    /\ t.c = QUEUE_GENERATE_QUERY
    /\ t.pc = "publish"
    /\ \/ /\ Publish(QUEUE_EXECUTE_QUERY,
                     Envelope("Generated", t.next_message.call_stack,
                              t.next_message.all_tool_calls,
                              t.next_message.generated_sql, ""))
          /\ Step(t, [t EXCEPT !.published = TRUE, !.pc = "update"])
          /\ UNCHANGED faults
       \/ /\ Raises
          /\ Step(t, [t EXCEPT !.pc = "handler", !.raised = TRUE])
          /\ UNCHANGED queue
    /\ UNCHANGED <<store, unacked, epoch, nextTag, actionQ, submitted, settled,
                   connLosses>>

\* update_saga_state(message.saga_id, next_message.to_dict()), then ch.basic_ack
GenUpdate(t) ==
    /\ t.c = QUEUE_GENERATE_QUERY
    /\ t.pc = "update"
    /\ \/ /\ store' = update_result(store,
                         Dict({"call_stack", "all_tool_calls", "generated_sql"},
                              t.next_message.call_stack, t.next_message.all_tool_calls,
                              t.next_message.generated_sql, ""), "")
          /\ Enqueue(t, [t EXCEPT !.updated = TRUE], "ack")
          /\ UNCHANGED faults
       \/ /\ Raises
          /\ Step(t, [t EXCEPT !.pc = "handler", !.raised = TRUE])
          /\ UNCHANGED <<store, actionQ, unacked, settled>>
    /\ UNCHANGED <<queue, epoch, nextTag, submitted, connLosses>>

\* ------------------------------------------------- query_executor_consumer
\* process_query_execution up to the branch on execution_result.success
\* (database_service.execute_query catches every exception and reports
\* success or failure)
ExecRun(t) ==
    /\ t.c = QUEUE_EXECUTE_QUERY
    /\ Starts(t)
    /\ \/ \* not execution_result.success: error_message with the copied call stack
          Step(t, [t EXCEPT
              !.next_message =
                  [call_stack |-> add_to_call_stack(t.message.call_stack, STEP_EXECUTE,
                                                    "error", << >>),
                   all_tool_calls |-> << >>,
                   current_tool_calls |-> << >>,
                   generated_sql |-> ""],
              !.outcome = "failed",
              !.pc = "publish_error"])
       \/ \* success: next_message copies the call stack only
          Step(t, [t EXCEPT
              !.next_message =
                  [call_stack |-> add_to_call_stack(t.message.call_stack, STEP_EXECUTE,
                                                    "success", << >>),
                   all_tool_calls |-> << >>,
                   current_tool_calls |-> << >>,
                   generated_sql |-> t.message.generated_sql],
              !.outcome = "next",
              !.pc = "publish"])
    /\ UNCHANGED <<store, queue, unacked, epoch, nextTag, actionQ, submitted, settled,
                   connLosses, faults>>

\* the error message the executor's except handler publishes
ExecHandlerError(t) ==
    Envelope("Error",
             add_to_call_stack(t.message.call_stack, STEP_EXECUTE, "error", << >>),
             << >>, "", STEP_EXECUTE)

\* ch.basic_ack / ch.basic_nack called directly on the delivery's channel
\* (this consumer has no action queue); the thread ends
ExecSettle(t, u, kind) ==
    /\ unacked' = [unacked EXCEPT ![t.c] = Settled(t.c, t.tag, t.epoch)]
    /\ settled' = settled \cup SettledRecord(t.c, t.epoch, Closure(u, kind))
    /\ threads' = threads \ {t}

\* the except handler of process_query_execution: publish an error message
\* (any failure in there is swallowed), then basic_nack(requeue=False)
ExecHandler(t) ==
    /\ t.c = QUEUE_EXECUTE_QUERY
    /\ t.pc = "handler"
    /\ \/ /\ Publish(QUEUE_ERROR, ExecHandlerError(t))
          /\ UNCHANGED faults
       \/ /\ Raises
          /\ UNCHANGED queue
    /\ ExecSettle(t, [t EXCEPT !.outcome = "failed"], "nack")
    /\ UNCHANGED <<store, epoch, nextTag, actionQ, submitted, connLosses>>

\* the failed-execution path: publisher.publish_error(error_message), then
\* ch.basic_ack; nothing is written to the state store
ExecPublishError(t) ==
    /\ t.c = QUEUE_EXECUTE_QUERY
    /\ t.pc = "publish_error"
    /\ \/ /\ Publish(QUEUE_ERROR,
                     Envelope("Error", t.next_message.call_stack, << >>, "", STEP_EXECUTE))
          /\ IF t.epoch = epoch[t.c]
             THEN ExecSettle(t, t, "ack")
             ELSE \* basic_ack raises on the closed channel: except handler next
                  /\ Step(t, [t EXCEPT !.pc = "handler"])
                  /\ UNCHANGED <<unacked, settled>>
          /\ UNCHANGED faults
       \/ /\ Raises
          /\ Step(t, [t EXCEPT !.pc = "handler", !.raised = TRUE])
          /\ UNCHANGED <<queue, unacked, settled>>
    /\ UNCHANGED <<store, epoch, nextTag, actionQ, submitted, connLosses>>

\* publisher.publish_result_formatting(next_message)
ExecPublish(t) ==
    /\ t.c = QUEUE_EXECUTE_QUERY
    /\ t.pc = "publish"
    /\ \/ /\ Publish(QUEUE_FORMAT_RESULT,
                     Envelope("Executed", t.next_message.call_stack,
                              t.next_message.all_tool_calls,
                              t.next_message.generated_sql, ""))
          /\ Step(t, [t EXCEPT !.published = TRUE, !.pc = "update"])
          /\ UNCHANGED faults
       \/ /\ Raises
          /\ Step(t, [t EXCEPT !.pc = "handler", !.raised = TRUE])
          /\ UNCHANGED queue
    /\ UNCHANGED <<store, unacked, epoch, nextTag, actionQ, submitted, settled,
                   connLosses>>

\* saga_store.update_result(saga_id, {call_stack, raw_results}), then ch.basic_ack
ExecUpdate(t) ==
    /\ t.c = QUEUE_EXECUTE_QUERY
    /\ t.pc = "update"
    /\ \/ /\ store' = update_result(store,
                         Dict({"call_stack", "raw_results"},
                              t.next_message.call_stack, << >>, "", ""), "")
          /\ IF t.epoch = epoch[t.c]
             THEN ExecSettle(t, [t EXCEPT !.updated = TRUE], "ack")
             ELSE \* basic_ack raises on the closed channel: except handler next
                  /\ Step(t, [t EXCEPT !.updated = TRUE, !.pc = "handler"])
                  /\ UNCHANGED <<unacked, settled>>
          /\ UNCHANGED faults
       \/ /\ Raises
          /\ Step(t, [t EXCEPT !.pc = "handler", !.raised = TRUE])
          /\ UNCHANGED <<store, unacked, settled>>
    /\ UNCHANGED <<queue, epoch, nextTag, actionQ, submitted, connLosses>>

\* ------------------------------------------------ result_formatter_consumer
\* the formatter's tool set: every discovered tool but run_query
FormatterTools == {tool \in AllTools : tool # "run_query"}

\* a run_result_formatting_agentic whose try has no except clause: the
\* failure of the LLM call leaves the function
run_result_formatting_uncaught(llm_ok) ==
    IF llm_ok THEN "summary" ELSE "uncaught"

\* run_result_formatting_agentic: the parsed EXECUTIVE SUMMARY or, when
\* chat.send_message raises, "Here are the findings from your data" followed
\* by message.raw_results
run_result_formatting_agentic(llm_ok) ==
    IF llm_ok THEN "summary" ELSE "fallback"

\* process_result_formatting up to result_dict; an exception out of
\* run_result_formatting_agentic would enter the except handler
FmtRun(t) ==
    /\ t.c = QUEUE_FORMAT_RESULT
    /\ Starts(t)
    /\ \E tools \in SeqsUpTo(FormatterTools, MaxToolCalls), llm_ok \in BOOLEAN :
         LET m == AddToolCalls(t.message, Invocations(STEP_FORMAT, tools))
             formatted_response == run_result_formatting_agentic(llm_ok)
         IN IF formatted_response = "uncaught"
            THEN Step(t, [t EXCEPT !.message = m, !.formatted = formatted_response,
                                   !.pc = "handler"])
            ELSE
            Step(t, [t EXCEPT
                !.message = [m EXCEPT !.current_tool_calls = << >>],
                !.formatted = formatted_response,
                !.next_message =
                    [call_stack |-> add_to_call_stack(m.call_stack, STEP_FORMAT,
                                        "success", m.current_tool_calls),
                     all_tool_calls |-> m.all_tool_calls,
                     current_tool_calls |-> m.current_tool_calls,
                     generated_sql |-> m.generated_sql],
                !.outcome = "completed",
                !.pc = "store"])
    /\ UNCHANGED <<store, queue, unacked, epoch, nextTag, actionQ, submitted, settled,
                   connLosses, faults>>

\* update_saga_state(message.saga_id, result_dict, status="completed"), then
\* ch.basic_ack
FmtStore(t) ==
    /\ t.c = QUEUE_FORMAT_RESULT
    /\ t.pc = "store"
    /\ \/ /\ store' = update_result(store,
                         Dict({"call_stack", "all_tool_calls", "generated_sql",
                               "raw_results", "formatted_response"},
                              t.next_message.call_stack, t.next_message.all_tool_calls,
                              t.next_message.generated_sql, ""), "completed")
          /\ Enqueue(t, [t EXCEPT !.updated = TRUE, !.wrote_terminal = store.exists], "ack")
          /\ UNCHANGED faults
       \/ /\ Raises
          /\ Step(t, [t EXCEPT !.pc = "handler", !.raised = TRUE])
          /\ UNCHANGED <<store, actionQ, unacked, settled>>
    /\ UNCHANGED <<queue, epoch, nextTag, submitted, connLosses>>

\* one step of the worker thread t
Worker(t) ==
    /\ \/ GenRun(t)
       \/ GenPublish(t)
       \/ GenUpdate(t)
       \/ ExecRun(t)
       \/ ExecPublishError(t)
       \/ ExecPublish(t)
       \/ ExecUpdate(t)
       \/ ExecHandler(t)
       \/ FmtRun(t)
       \/ FmtStore(t)
       \/ StoreSagaError(t)
       \/ PublishError(t)
    /\ UNCHANGED otherThanSaga

Next ==
    \/ Submit
    \/ \E c \in Consumers : Deliver(c)
    \/ \E c \in Consumers : Drain(c)
    \/ \E c \in Consumers : ConnectionLost(c)
    \/ \E t \in threads : Worker(t)

Spec == Init /\ [][Next]_vars

\* the tool runtime alone
McpSpec == Init /\ [][McpNext]_vars

\* the registry alone
RegistrySpec == Init /\ [][RegistryNext]_vars

\* the registry and the agent worker's tool cache
DiscoverySpec == Init /\ [][DiscoveryNext]_vars

\* the shared publisher and the threads that call it
PublisherSpec == Init /\ [][PublisherNext]_vars

\* one saga record in redis and the calls that write it
ExpirySpec == Init /\ [][ExpiryNext]_vars

\* the classification of the generate step alone
ClassifySpec == Init /\ [][ClassifyNext]_vars

\* the context merge of the tool bindings alone
MergeSpec == Init /\ [][MergeNext]_vars

\* the shared tool event loop alone
LoopSpec == Init /\ [][LoopNext]_vars

\* concurrent writers of one saga record alone
RaceSpec == Init /\ [][RaceNext]_vars

\* the status endpoint and one saga record alone
StatusSpec == Init /\ [][StatusNext]_vars

\* the submitter, the consumers' loops and the pool threads keep running;
\* nothing is assumed about lost connections
FairSpec ==
    /\ Spec
    /\ WF_vars(Submit)
    /\ \A c \in Consumers : WF_vars(Deliver(c)) /\ WF_vars(Drain(c))
    /\ WF_vars(\E t \in threads : Worker(t))

\* ------------------------------------------------------------------ claims
StepNames(call_stack) == [i \in 1..Len(call_stack) |-> call_stack[i].step_name]
\* the entries of a call stack by step and status (two runs of one step differ
\* in timestamps, durations and tool calls)
Shape(call_stack) ==
    [i \in 1..Len(call_stack) |->
        <<call_stack[i].step_name, call_stack[i].status>>]
\* the step names of a call stack without the submitter's entry
ExecutedSteps(call_stack) ==
    SelectSeq(StepNames(call_stack), LAMBDA step_name : step_name # STEP_API)
AllSuccess(call_stack) == \A i \in 1..Len(call_stack) : call_stack[i].status = "success"

\* the thread that takes the step, if a thread takes it
Actors == threads \ threads'

\* C1: the status of the saga's record goes from pending to one terminal
\* value and then never changes: not back to pending, not to the other
\* terminal value
C1_StatusSequence ==
    [][/\ store.status = "pending" => store'.status \in {"pending"} \cup Terminal
       /\ store.status \in Terminal => store'.status = store.status]_vars

\* C2: a worker processing a redelivered message while the record is terminal
\* leaves the record's status and result (the steps and statuses of
\* call_stack, generated_sql) as they were
C2_RedeliverySameState ==
    [][((\E t \in Actors : t.redelivered) /\ store.status \in Terminal)
          => /\ store'.status = store.status
             /\ Shape(store'.call_stack) = Shape(store.call_stack)
             /\ store'.generated_sql = store.generated_sql]_vars

\* C3: a worker that has published its successor message has written its
\* state update before, and an ack of a step with a successor is enqueued
\* only after the publish
C3_PublishAfterUpdate ==
    /\ \A t \in threads : t.published => t.updated
    /\ \A c \in Consumers : \A i \in 1..Len(actionQ[c]) :
          (actionQ[c][i].kind = "ack" /\ actionQ[c][i].outcome = "next")
             => actionQ[c][i].published

\* C4: every step extends result.call_stack in the store, and every worker
\* extends the call_stack of the envelope it received
C4_CallStackAppendOnly ==
    [][/\ (store.exists /\ store'.exists)
             => IsPrefix(Shape(store.call_stack), Shape(store'.call_stack))
       /\ \A t \in Actors : \A u \in threads' \ threads :
             (u.c = t.c /\ u.tag = t.tag /\ u.epoch = t.epoch)
                => /\ IsPrefix(t.message.call_stack, u.message.call_stack)
                   /\ u.next_message # t.next_message
                         => IsPrefix(t.message.call_stack, u.next_message.call_stack)]_vars

\* C5: no worker both publishes the next-step message and writes the
\* terminal error state while processing one delivery
C5_NoPublishAfterError ==
    \A t \in threads : ~(t.published /\ t.wrote_error)

\* C6: whenever the ack or nack of a delivery with a terminal outcome
\* (OutOfScope, step failure, Format completion) has been executed on the
\* channel, the worker had written the terminal status before (deliveries
\* during which a store or publisher call raised are left aside)
C6_TerminalWriteBeforeAck ==
    \A r \in settled : ~r.raised => r.wrote_terminal

\* C7: once the Initiated message is published, the record eventually has a
\* terminal status
C7_EventuallyTerminal ==
    (submitted = "published") ~> (store.status \in Terminal)

\* C8: once the Execute worker has acked a delivery whose SQL failed, the
\* record has status error with error_step the execute step and a call_stack
\* ending in the failed execute entry
C8_ExecFailureIsError ==
    (\E r \in settled : r.c = QUEUE_EXECUTE_QUERY /\ r.outcome = "failed" /\ r.kind = "ack")
       => /\ store.status = "error"
          /\ store.error_step = STEP_EXECUTE
          /\ store.call_stack # << >>
          /\ store.call_stack[Len(store.call_stack)] =
                CallStackEntry(STEP_EXECUTE, "error", << >>)

\* C9: the call_stack of a completed record is one successful entry for each
\* of generate, execute and format, in that order (the submitter's
\* api_request_received entry, which is not a step of a worker, is not counted)
C9_CallStackOfCompleted ==
    store.status = "completed"
       => /\ ExecutedSteps(store.call_stack) =
                <<STEP_GENERATE, STEP_EXECUTE, STEP_FORMAT>>
          /\ AllSuccess(store.call_stack)

\* C10: the call_stack of a record with status error ends in an error entry
\* whose step_name is result.error_step
C10_ErrorEntryLast ==
    store.status = "error"
       => /\ store.call_stack # << >>
          /\ store.call_stack[Len(store.call_stack)].status = "error"
          /\ store.call_stack[Len(store.call_stack)].step_name = store.error_step

\* the tool invocations of the steps of a call stack, in order
RECURSIVE ToolsUsed(_)
ToolsUsed(call_stack) ==
    IF call_stack = << >> THEN << >>
    ELSE Head(call_stack).tools_used \o ToolsUsed(Tail(call_stack))

\* s is t with some elements left out
RECURSIVE IsSubseq(_, _)
IsSubseq(s, t) ==
    IF s = << >> THEN TRUE
    ELSE IF t = << >> THEN FALSE
    ELSE IF Head(s) = Head(t) THEN IsSubseq(Tail(s), Tail(t))
    ELSE IsSubseq(s, Tail(t))

NoDuplicates(s) == \A i, j \in 1..Len(s) : s[i] = s[j] => i = j

\* C11: in the saga's terminal record the invocations of the steps'
\* tools_used are each in all_tool_calls, once and in the same order, and
\* none is in the tools_used of two steps
C11_ToolsUsedInAllToolCalls ==
    store.status \in Terminal
       => /\ IsSubseq(ToolsUsed(store.call_stack), store.all_tool_calls)
          /\ NoDuplicates(ToolsUsed(store.call_stack))
          /\ NoDuplicates(store.all_tool_calls)

\* C12: the envelope a worker builds for the next step extends the
\* call_stack and the all_tool_calls of the envelope it received
C12_SuccessorCarriesLists ==
    [][\A t \in Actors : \A u \in threads' \ threads :
          (/\ u.c = t.c /\ u.tag = t.tag /\ u.epoch = t.epoch
           /\ t.outcome = "none" /\ u.outcome \in {"next", "completed"})
             => /\ IsPrefix(t.message.call_stack, u.next_message.call_stack)
                /\ IsPrefix(t.message.all_tool_calls, u.next_message.all_tool_calls)]_vars

\* C13: a Generate delivery classified OutOfScope publishes nothing to
\* query_execute_query; its store_saga_error leaves the record with status
\* error, the generate step as error_step and a formatted_response; and the
\* delivery is then acked
C13_OutOfScopeAcked ==
    [][\A t \in Actors : t.outcome = "oos" =>
          /\ queue'[QUEUE_EXECUTE_QUERY] = queue[QUEUE_EXECUTE_QUERY]
          /\ \A u \in threads' \ threads :
                u.pc = "oos_publish"
                   => /\ store'.status = "error"
                      /\ store'.error_step = STEP_GENERATE
                      /\ "formatted_response" \in store'.keys
          /\ t.pc = "oos_publish"
                => /\ Len(actionQ'[t.c]) = Len(actionQ[t.c]) + 1
                   /\ actionQ'[t.c][Len(actionQ'[t.c])].kind = "ack"
                   /\ actionQ'[t.c][Len(actionQ'[t.c])].tag = t.tag]_vars

\* an OutOfScope delivery has been acked on its channel, the record is error
C13_Witness ==
    /\ \E r \in settled : r.outcome = "oos" /\ r.kind = "ack" /\ r.wrote_terminal
    /\ store.status = "error"
    /\ queue[QUEUE_EXECUTE_QUERY] = << >>

\* C14: a delivery whose processing raised is nacked after the worker wrote
\* the terminal error state (Generate and Format: the deliveries whose agent
\* run raised, with no failing store or publisher call; Execute: the
\* deliveries during which a store or publisher call raised)
C14_FailureWritesErrorThenNacks ==
    \A r \in settled :
        (r.outcome = "failed" /\ (r.raised <=> r.c = QUEUE_EXECUTE_QUERY))
           => /\ r.kind = "nack"
              /\ r.wrote_terminal

\* C15: a delivery whose next-step message was published and whose state
\* store call then raised is acked, and its worker writes no error state
C15_StoreFailureAfterPublishAcks ==
    /\ \A t \in threads : (t.published /\ t.raised) => ~t.wrote_error
    /\ \A c \in Consumers : \A i \in 1..Len(actionQ[c]) :
          (actionQ[c][i].published /\ actionQ[c][i].raised)
             => actionQ[c][i].kind = "ack"

\* calls in flight against the provider: coroutines dispatched, not finished
InFlight == Cardinality({i \in CallIds : calls[i].coro = "running"})

\* C16: the calls in flight against the provider never exceed the width of
\* its semaphore
C16_InFlightWithinWidth ==
    InFlight <= MaxConnectionsPerServer

\* C17: no invocation of a binding ends by raising to its caller
C17_BindingNeverRaises ==
    \A i \in CallIds : calls[i].caller # "raised"

\* C18: a binding whose provider call timed out in call_tool on every
\* attempt returns "Error: MCP call timed out", at most 32 s after the
\* invocation
C18_TimedOutWithin32s ==
    \A i \in CallIds :
        (/\ calls[i].caller = "returned"
         /\ calls[i].coro = "finished"
         /\ calls[i].result.error = "MCP call timed out"
         /\ calls[i].only_call_tool_timeouts)
           => /\ calls[i].returned = ErrorString("MCP call timed out")
              /\ calls[i].returned_at <= 64

\* C19: when the monitor applies a failed probe to a provider of the
\* registry, a provider with is_static stays and changes in its status
\* only, and a dynamic provider is removed
C19_FailedProbeKeepsStaticOnly ==
    [][\A key \in Keys, new_status \in ProbeResults \ {"healthy"} :
          (MonitorCheck(key, new_status) /\ key \in hkeys(registry))
             => IF registry[key].is_static
                THEN registry'[key] = [registry[key] EXCEPT !.status = new_status]
                ELSE key \notin hkeys(registry')]_vars

\* C20: GET /servers lists at most one entry for a url, and the entry of a
\* url that has just been registered is healthy with last_seen the time of
\* the request
C20_OneEntryPerUrl ==
    [][/\ \A url \in Urls : Listed(registry', url) <= 1
       /\ \A name \in Names, url \in Urls :
             register_server(name, url)
                => /\ Listed(registry', url) = 1
                   /\ \E k \in hkeys(registry') :
                         /\ registry'[k].url = url
                         /\ registry'[k].status = "healthy"
                         /\ registry'[k].last_seen = now]_vars

\* the seeded url has been registered again, under another name and later
C20_Witness ==
    /\ started
    /\ Listed(registry, "http://a/sse") = 1
    /\ registry["http://a/sse"].name = "mcp-postgres"
    /\ registry["http://a/sse"].status = "healthy"
    /\ registry["http://a/sse"].last_seen > 0

\* C21: a dynamic provider listed as healthy has a last_seen that is at most
\* one health-check interval old
C21_HealthyIsFresh ==
    \A key \in hkeys(registry) :
        (~registry[key].is_static /\ registry[key].status = "healthy")
            => now - registry[key].last_seen <= HEALTH_INTERVAL

\* C22: a tool call for a tool that a listed provider serves is dispatched
\* to a listed provider, never to one that the registry has removed
C22_DispatchedToSurvivor ==
    (dispatched # NoDispatch /\ dispatched.survivor) => dispatched.listed

\* C23: a refresh in which list_tools fails for one provider and succeeds
\* for another keeps every tool that tools_map had, and a refresh without
\* force within a minute of a successful one changes nothing
C23_PartialFailureKeepsCache ==
    [][\A force, registry_ok \in BOOLEAN, failing \in SUBSET Urls, pick \in [Tools -> Urls] :
          refresh_tools(force, registry_ok, failing, pick)
             => /\ (failing # {} /\ ListedUrls \ failing # {})
                     => \A t \in Tools :
                           (tools_map[t] \in failing) => tools_map'[t] # NoClient
                /\ (~force /\ fresh) => tools_map' = tools_map]_vars

\* the queues consumed through BaseConsumer (thread pool and action queue)
PooledConsumers == {QUEUE_GENERATE_QUERY, QUEUE_FORMAT_RESULT}

\* C24: on a BaseConsumer's channel a delivery is acked or nacked only by
\* the polling loop executing the head of the action queue, never in the
\* step of a worker thread; a worker thread that issues its ack or nack
\* ends with the closure appended to the action queue and the channel's
\* deliveries untouched
C24_AcksOnLoopThread ==
    [][\A c \in PooledConsumers :
          /\ (epoch'[c] = epoch[c] /\ unacked[c] \ unacked'[c] # {})
                => /\ threads' = threads
                   /\ actionQ[c] # << >>
                   /\ actionQ'[c] = Tail(actionQ[c])
                   /\ unacked[c] \ unacked'[c] \subseteq
                         {d \in unacked[c] : d.tag = Head(actionQ[c]).tag}
          /\ \A t \in Actors :
                (t.c = c /\ ~\E u \in threads' \ threads : u.c = c /\ u.tag = t.tag
                                                            /\ u.epoch = t.epoch)
                   => /\ unacked'[c] = unacked[c]
                      /\ settled' = settled
                      /\ Len(actionQ'[c]) = Len(actionQ[c]) + 1
                      /\ actionQ'[c][Len(actionQ'[c])].tag = t.tag
                      /\ actionQ'[c][Len(actionQ'[c])].epoch = t.epoch]_vars

\* acks and nacks of both pooled consumers have been executed by their loops
C24_Witness ==
    /\ \E r \in settled : r.c = QUEUE_GENERATE_QUERY /\ r.kind = "nack"
    /\ \E r \in settled : r.c = QUEUE_FORMAT_RESULT /\ r.kind = "ack"

\* C25: every step of publish is taken by the holder of the publisher's
\* lock; basic_publish is attempted at most twice, the second time only
\* after a channel error of the first; and a publish whose first attempt
\* failed with a channel error fails only in the reconnect or in the retry,
\* which is made unless the reconnect failed
C25_PublishRetriesOnce ==
    \A p \in Publishers :
        LET u == callers[p]
        IN /\ u.pc \in {"ensure", "publish", "reconnect", "retry"} => lock = p
           /\ u.published <= 2
           /\ u.published = 2 => u.first_error = "channel"
           /\ (u.pc = "done" /\ u.first_error = "channel")
                 => /\ u.result = "raised" => u.raised_in \in {"reconnect", "retry"}
                    /\ u.raised_in # "reconnect" => u.published = 2

\* one thread's publish failed in its retry, and another thread, holding
\* the lock after it, has reconnected after a channel error of its own
C25_Witness ==
    /\ callers[1].pc = "done" /\ callers[1].published = 2 /\ callers[1].result = "raised"
    /\ callers[2].pc = "retry" /\ callers[2].first_error = "channel"

\* the tool calls recorded in a list, by tool name
ToolNames(all_tool_calls) == {all_tool_calls[i].tool : i \in DOMAIN all_tool_calls}

\* C26: no run_query call is recorded in the generate step: neither the
\* message a Generate worker holds nor the record of a saga that ended in
\* the generate step lists one, although a provider advertises run_query
C26_NoRunQueryInGenerate ==
    /\ "run_query" \in AllTools
    /\ \A t \in threads :
          t.c = QUEUE_GENERATE_QUERY => "run_query" \notin ToolNames(t.message.all_tool_calls)
    /\ (store.status = "error" /\ store.error_step = STEP_GENERATE)
          => "run_query" \notin ToolNames(store.all_tool_calls)

\* a saga ended in the generate step as OutOfScope with a tool call recorded
C26_Witness ==
    /\ store.status = "error"
    /\ store.error_step = STEP_GENERATE
    /\ ToolNames(store.all_tool_calls) # {}
    /\ \E r \in settled : r.c = QUEUE_GENERATE_QUERY /\ r.outcome = "oos"

\* C27: a saga record that has been written exists exactly until the time
\* to live of 3600 s has passed since its last write, whichever of
\* mark_pending, update_result and store_result made that write
C27_RecordLivesOneTtl ==
    redis_key.set => (KeyExists <=> redis_time < redis_key.written_at + TTL)

\* a record whose last write was an update_result is gone, its time to live
\* over
C27_Witness ==
    /\ redis_key.set
    /\ redis_key.by = "update_result"
    /\ redis_key.written_at > 0
    /\ redis_time >= redis_key.written_at + TTL
    /\ ~KeyExists


\* C28: a classified response is OutOfScope exactly when its DECISION
\* contains OUT_OF_SCOPE or IRRELEVANT, or no SQL was produced (absent,
\* empty, or the literal NONE), or its text has an out-of-scope phrase and no
\* SQL was produced; a DECISION of RELEVANT with SQL is never OutOfScope
C28_OutOfScopeExactly ==
    response # NoResponse =>
        LET decision == upper(response.decision)
            no_sql == NoSqlProduced(response.sql)
            phrase == response.keywords \cap out_of_scope_keywords # {}
        IN  /\ classified = "OutOfScope" <=>
                \/ Contains("OUT_OF_SCOPE", decision)
                \/ Contains("IRRELEVANT", decision)
                \/ no_sql
                \/ phrase /\ no_sql
            /\ decision = "RELEVANT" /\ ~no_sql => classified # "OutOfScope"

\* C29: for every key of the ambient context, the argument handed to
\* call_tool is the caller's value when the caller gave a non-empty one and
\* the context's value when the caller's is absent or empty; an argument
\* whose key is not in the context is the one the merge was given
C29_ContextFillsTheGaps ==
    invocation.sent =>
        \A k \in ArgKeys :
            IF k \in DOMAIN invocation.context
            THEN invocation.arguments[k] =
                    IF invocation.kwargs[k] \in {NotGiven, None, ""}
                    THEN invocation.context[k]
                    ELSE invocation.kwargs[k]
            ELSE invocation.arguments[k] = invocation.casted[k]

\* an invocation under the generate step's context: the caller gave its own
\* account_id and an empty db_url
C29_Witness ==
    /\ invocation.sent
    /\ DOMAIN invocation.context = {"db_url", "account_id"}
    /\ invocation.kwargs["account_id"] = "caller value"
    /\ invocation.kwargs["db_url"] = ""
    /\ invocation.kwargs["limit"] = "str 5"
    /\ invocation.arguments["account_id"] = "caller value"
    /\ invocation.arguments["db_url"] = "ctx url"
    /\ invocation.arguments["limit"] = "int 5"


\* C30: call_tool makes at most three attempts per invocation, makes no
\* further attempt once an attempt has succeeded, and returns a failed
\* result only after the third attempt has failed
C30_ThreeAttempts ==
    [][\A i \in CallIds :
          /\ calls'[i].attempt <= RETRIES + 1
          /\ calls[i].coro = "finished" => calls'[i].attempt = calls[i].attempt
          /\ (calls'[i].coro = "finished" /\ ~calls'[i].result.success)
                => calls'[i].attempt = RETRIES + 1]_vars

\* C30, amended: at most three attempts, no further attempt once an attempt
\* has got the provider's answer, and a failed result that is not the
\* provider's own error answer is returned only after the third attempt has
\* failed
C30_ThreeAttemptsForTransportFailures ==
    [][\A i \in CallIds :
          /\ calls'[i].attempt <= RETRIES + 1
          /\ calls[i].coro = "finished" => calls'[i].attempt = calls[i].attempt
          /\ ( /\ calls'[i].coro = "finished"
               /\ ~calls'[i].result.success
               /\ calls'[i].result # MCPToolResult(FALSE, "content", "None") )
             => calls'[i].attempt = RETRIES + 1]_vars

\* a call whose three attempts all failed in the transport, and a call that
\* succeeded on its second attempt
C30_Witness ==
    \E i, j \in CallIds :
        /\ calls[i].coro = "finished"
        /\ calls[i].attempt = RETRIES + 1
        /\ calls[i].result = MCPToolResult(FALSE, "", "transport error")
        /\ calls[j].coro = "finished"
        /\ calls[j].attempt = 2
        /\ calls[j].result.success


\* C31: at most one shared tool event loop and at most one loop thread is
\* ever created, whatever the interleaving of the callers of _get_shared_loop
C31_OneLoopPerProcess ==
    /\ loops <= 1
    /\ Len(loop_threads) <= 1


\* the closures in the action queue q for the delivery of thread t
ClosuresOf(q, t) == {i \in 1..Len(q) : q[i].tag = t.tag /\ q[i].epoch = t.epoch}

\* C32: for every delivery handed to a worker of a BaseConsumer exactly one
\* ack or nack(requeue=false) is enqueued: none while the worker thread is
\* running, and the thread ends in the step that appends its one closure,
\* also when the store or the publisher raises inside the error handler
C32_ExactlyOneAckOrNack ==
    [][\A t \in threads :
          t.c \in PooledConsumers =>
             LET running ==
                     \E u \in threads' : u.c = t.c /\ u.tag = t.tag /\ u.epoch = t.epoch
             IN  /\ ClosuresOf(actionQ[t.c], t) = {}
                 /\ running => ClosuresOf(actionQ'[t.c], t) = {}
                 /\ ~running =>
                       /\ Len(actionQ'[t.c]) = Len(actionQ[t.c]) + 1
                       /\ SubSeq(actionQ'[t.c], 1, Len(actionQ[t.c])) = actionQ[t.c]
                       /\ ClosuresOf(actionQ'[t.c], t) = {Len(actionQ'[t.c])}
                       /\ actionQ'[t.c][Len(actionQ'[t.c])].kind \in {"ack", "nack"}]_vars

\* the store raised inside a worker's except handler and the nack of
\* thread_target is on the action queue; an ack is on one too
C32_Witness ==
    /\ \E c \in PooledConsumers : \E i \in 1..Len(actionQ[c]) :
          actionQ[c][i].kind = "nack" /\ actionQ[c][i].raised
    /\ \E c \in PooledConsumers : \E i \in 1..Len(actionQ[c]) :
          actionQ[c][i].kind = "ack"


\* C33: the polling loop executes a queued ack or nack against the channel
\* its delivery arrived on: a closure of the current channel settles the
\* delivery with its tag, a closure of a channel that was lost settles
\* nothing on the new channel, whatever its tag
C33_AckOnItsOwnChannel ==
    [][\A c \in PooledConsumers :
          (actionQ[c] # << >> /\ actionQ'[c] = Tail(actionQ[c]) /\ epoch'[c] = epoch[c])
             => LET a == Head(actionQ[c])
                IN  IF a.epoch = epoch[c]
                    THEN unacked'[c] = {d \in unacked[c] : d.tag # a.tag}
                    ELSE unacked'[c] = unacked[c] /\ settled' = settled]_vars

\* after a reconnect the action queue holds a closure of the lost channel
\* whose delivery tag is the tag of an unacked delivery of the new channel
C33_Witness ==
    \E c \in PooledConsumers :
        /\ actionQ[c] # << >>
        /\ Head(actionQ[c]).epoch < epoch[c]
        /\ \E d \in unacked[c] : d.tag = Head(actionQ[c]).tag


\* the writers that made calls of kind op
CallsOf(op) == {w \in Writers : writers[w].call.op = op}

\* C34: when the update_result and store_result calls of two workers on
\* one saga record have all returned, the record holds the patch of every
\* update_result (when no store_result replaced the result) and the status
\* of the terminal write (when there was exactly one)
C34_NoLostWrite ==
    (saga_record.exists /\ \A w \in Writers : writers[w].pc = "done" /\ writers[w].read.exists)
        => /\ CallsOf("store_result") = {}
                => \A w \in Writers : writers[w].call.patch \subseteq saga_record.result
           /\ \A w \in Writers :
                (/\ writers[w].call.status # "none"
                 /\ \A v \in Writers \ {w} : writers[v].call.status = "none")
                    => saga_record.status = writers[w].call.status


\* C35: when the monitor applies a probe result to an entry that a
\* registration has written since the monitor read the hash, the entry
\* stays in the hash with the name and the is_static flag the registration
\* gave it
C35_RegistrationSurvivesMonitor ==
    [][\A key \in Keys, new_status \in ProbeResults :
          (MonitorCheck(key, new_status) /\ registry[key] # monitor.snapshot[key])
             => /\ key \in hkeys(registry')
                /\ registry'[key].name = registry[key].name
                /\ registry'[key].is_static = registry[key].is_static]_vars


\* C36: a POST /register for the url of a provider seeded from MCP_SERVICES
\* leaves its is_static flag set, and the monitor never removes a provider
\* that was seeded from MCP_SERVICES
C36_StaticFlagIsKept ==
    [][/\ \A name \in Names, url \in Urls :
             (register_server(name, url) /\ registry[url].is_static)
                => registry'[url].is_static
       /\ \A svc \in StaticServices :
             svc.url \in hkeys(registry) => svc.url \in hkeys(registry')]_vars


\* C37: get_query_status answers pending only while a record with status
\* pending exists: not for a saga id without a record, and not after it has
\* answered with a terminal status
C37_PendingOnlyWhilePending ==
    [][(PollRespond /\ poll'.reported = "pending")
          => /\ StatusGet.exists
             /\ StatusGet.status = "pending"
             /\ ~poll.terminal_reported]_vars


\* C38: an update_result call whose GET found no record for the saga id
\* returns with the store as it was: it creates no record, also when it is
\* the Format worker's terminal write with status completed
C38_UpdateNeverCreates ==
    [][\A w \in Writers :
          (/\ RaceSetex(w)
           /\ writers[w].call.op = "update_result"
           /\ ~writers[w].read.exists)
             => /\ saga_record' = saga_record
                /\ writers'[w].pc = "done"]_vars

\* the Format worker's completed write has returned for a saga id that had
\* no record, and the store has none
C38_Witness ==
    \E w \in Writers :
        /\ writers[w].pc = "done"
        /\ writers[w].call.status = "completed"
        /\ ~writers[w].read.exists
        /\ ~saga_record.exists


\* C39: a Format worker whose LLM call failed goes on with the fallback
\* response: it enters the error handler only when the store raises, and the
\* step that ends it writes status completed with a formatted_response to the
\* saga's record, enqueues the ack, and leaves the error queue and the
\* record's error step alone
C39_LlmFailureStillCompletes ==
    [][/\ \A u \in threads' :
             (u.c = QUEUE_FORMAT_RESULT /\ u.pc \in {"handler", "handler_publish"})
                => u.raised
       /\ \A t \in threads :
             (/\ t.c = QUEUE_FORMAT_RESULT
              /\ t.pc = "store"
              /\ t.formatted = "fallback"
              /\ ~\E u \in threads' : u.c = t.c /\ u.tag = t.tag /\ u.epoch = t.epoch)
                => /\ actionQ'[t.c] # << >>
                   /\ actionQ'[t.c][Len(actionQ'[t.c])].kind = "ack"
                   /\ actionQ'[t.c][Len(actionQ'[t.c])].tag = t.tag
                   /\ store.exists =>
                         /\ store'.status = "completed"
                         /\ "formatted_response" \in store'.keys
                         /\ store'.error_step = store.error_step
                   /\ queue'[QUEUE_ERROR] = queue[QUEUE_ERROR]]_vars

\* the ack of a Format worker that answered with the fallback response is
\* on the action queue, the record is completed and the error queue is empty
C39_Witness ==
    /\ store.status = "completed"
    /\ queue[QUEUE_ERROR] = << >>
    /\ \E i \in 1..Len(actionQ[QUEUE_FORMAT_RESULT]) :
          /\ actionQ[QUEUE_FORMAT_RESULT][i].kind = "ack"
          /\ actionQ[QUEUE_FORMAT_RESULT][i].formatted = "fallback"


\* C40: a binding invocation that has returned recorded one ToolCall; its
\* status is error when the binding returned an "Error: ..." string and
\* success only when the provider call succeeded
C40_ToolCallStatusMatchesOutcome ==
    \A i \in CallIds :
        calls[i].caller \in {"returned", "raised"}
           => /\ calls[i].recorded \in {"success", "error"}
              /\ calls[i].returned = ErrorString(calls[i].returned[Len(calls[i].returned)])
                    => calls[i].recorded = "error"
              /\ calls[i].recorded = "success"
                    => calls[i].returned = <<"content">>
====
